---- MODULE Spec2Model ----
(***************************************************************************)
(* Registration backend (Netlify functions): the Record Store (Postgres    *)
(* table `registrations`), the Mirror Store (Google Sheet "Registrations"),*)
(* the upsert Reconciler, the submission handlers, the admin handlers and  *)
(* the retry utility.                                                      *)
(*                                                                         *)
(* The specifications that share the module:                               *)
(*   Spec        the Record Store, the Mirror Store and the Reconciler,    *)
(*               interleaved with registration, check-in and undo-check-in *)
(*   SpecFair    Spec with the Reconciler's steps weakly fair              *)
(*   SpecRetry   retryWithBackoff applied to drawn inputs                  *)
(*   SpecSubmit  concurrent invocations of the submission and export       *)
(*               handlers over one phone-unique table and one pool         *)
(*   SpecChunk   the chunk loops at the configured chunk size              *)
(*   SpecIds     concurrent submissions to the handlers that allocate      *)
(*               sequential registration ids                               *)
(*   SpecUndo    unmark-checked-in on drawn requests                       *)
(*   SpecRebuild the full rebuild of the sheet (clear, then rewrite)       *)
(*   SpecDelete  the sync that appends, updates in place and deletes rows  *)
(*   SpecStats   get-stats and its in-memory cache as time passes          *)
(*   SpecLive    registrations with a background append, and the Reconciler *)
(*   SpecShared  SpecLive with the full rebuild writing the same sheet      *)
(*   SpecAdmin   the key check of the admin handlers on drawn requests      *)
(*   SpecExport  the xlsx export handlers awaiting their stream promise     *)
(*   SpecPaging  list-registrations on drawn page and limit values          *)
(*   SpecWorker  the service worker's fetch listener on drawn requests       *)
(***************************************************************************)
EXTENDS Integers, Sequences, FiniteSets, TLC

VARIABLES
    \* ---- retryWithBackoff (SpecRetry)
    tcall,        \* the call under test: variant, arguments, outcome of each fn() call
    tres,         \* its completion record, or NoResult before the call
    \* ---- Record Store, Mirror Store and Reconciler (Spec)
    utilsVariant, \* the retryWithBackoff signature that require("./utils") resolves to
    recs,         \* registrations table: id -> [present, cin (checked_in_at), needsSync]
    clock,        \* check-ins made so far (the source of checked_in_at values)
    sheet,        \* the sheet "Registrations": a sequence of rows [id, cell]
    faults,       \* external failures still to come
    rpc,          \* the Reconciler's position: idle, index, update, append, clear
    dbRecordsToSync, \* the run's dirty read: snapshots [id, cin], oldest first
    sheetMap,     \* registration id -> row number, from the run's read of column A
    updateRequests,  \* [row, id, cin] in-place updates planned by the run
    recordsToAppend, \* [id, cin] rows the run plans to append
    ri,           \* index of the next chunk's first element
    rlog,         \* the run's record: outcome, rows updated and appended,
                  \* Mirror Store calls made, flag-clear executed, connection
    storeWrites,  \* a Record Store write was committed since the last dirty read
    \* ---- submission and export handlers (SpecSubmit)
    submitVariant, \* the version of the submission handler that is deployed
    table,        \* registrations rows [phone, rid] under registrations_phone_key
    inv,          \* handler invocations: input, position, dbClient, response
    sfaults,      \* connection, query and upload failures still to come
    \* ---- the chunk loops at full chunk size (SpecChunk)
    cbatch,       \* the run's batch: the registration ids of its rows, in order
    ci,           \* the loop variable i
    ccalls,       \* the rows carried by each Mirror Store call made, in order
    cdirty,       \* ids with needs_sync = true
    cpc,          \* loop, clear, done
    \* ---- submission handlers that allocate sequential ids (SpecIds)
    idVariant,    \* the version deployed: part_000, part_005 or firestore
    fcount,       \* Firestore counters/registrations: count
    fdocs,        \* Firestore registrations: phone -> registrationId number, 0 = no doc
    fsheet,       \* the sheet: rows [rid, phone]; rid 0 is the text "PENDING"
    finv,         \* invocations: input, position, allocated id, effects so far
    ffaults,      \* upstream failures still to come
    \* ---- unmark-checked-in on drawn requests (SpecUndo)
    undo,         \* the last request answered: status, connection, class
    \* ---- the full rebuild of the sheet (SpecRebuild)
    rebuildVariant, \* the handler that rebuilds: part_015 or export-data
    bpc,          \* the run's position: idle, clear, update
    brows,        \* rows of the run's SELECT *: registration ids, oldest first
    blog,         \* the run's record: outcome, rows read, sheet length before
    \* ---- the sync that deletes mirror rows (SpecDelete)
    dsheet,       \* the sheet: rows [phone, rid], the header first
    ddb,          \* registrations rows [phone, rid], one per phone
    dpc,          \* the run's position: idle, append, batch
    dplan,        \* rowsToAppend, the updateCells requests, the rows to delete
    dlog,         \* the run's record: outcome, sheet and table as read, rows appended
    \* ---- get-stats and its in-memory cache (SpecStats)
    gnow,         \* Date.now(), in milliseconds
    gadv,         \* the number of times the clock was advanced
    cachedStats,  \* the module variable cachedStats: null or the stats stored
    cacheTimestamp, \* the module variable cacheTimestamp
    gpc,          \* the request in progress: idle, query, store
    gpending,     \* the stats the query returned, with the time it ran
    gresp,        \* the last response: status, source, stats, times
    background,      \* ids whose fire-and-forget sheet append is still in flight
    \* ---- the admin handlers' key check (SpecAdmin)
    EXPORT_SECRET_KEY, \* process.env.EXPORT_SECRET_KEY, or Unset
    acached,      \* get-stats holds a cachedStats value
    areq,         \* the admin request being served
    apc,          \* its handler's position: idle, connect, query
    alog,         \* what the handler did for it: status, cache read, connection, data
    \* ---- the xlsx export handlers (SpecExport)
    exportVariant, \* the export handler deployed: export-data.js or part_010
    xtotal,       \* rows the export query selects
    xpc,          \* the invocation: idle, connect, await, done
    xpromise,     \* the awaited promise: none, pending, resolved, rejected
    xsources,     \* emitters that can still call back into the promise
    xrows,        \* rows added to the worksheet
    xlog,         \* status returned, connections acquired and released
    \* ---- the paging of list-registrations (SpecPaging)
    ptotal,       \* COUNT(*) of registrations
    ppc,          \* the request: idle, done
    pparsed,      \* parsedPage and parsedLimit
    presp,        \* the response: page, pageSize, totalPages, and the OFFSET used
    \* ---- the service worker's fetch listener (SpecWorker)
    wcache,       \* the cache CACHE_VERSION: url -> the response stored, 0 = none
    wev,          \* the fetch event being handled
    wpending,     \* cache.put calls started and not yet completed
    wlog          \* responses the network has given, and the puts completed

tvars == <<tcall, tres>>
rvars == <<utilsVariant, recs, clock, sheet, faults, rpc, dbRecordsToSync,
           sheetMap, updateRequests, recordsToAppend, ri, rlog, storeWrites>>
svars == <<submitVariant, table, inv, sfaults>>
cvars == <<cbatch, ci, ccalls, cdirty, cpc>>
fvars == <<idVariant, fcount, fdocs, fsheet, finv, ffaults>>
uvars == <<undo>>
bvars == <<rebuildVariant, bpc, brows, blog>>
dvars == <<dsheet, ddb, dpc, dplan, dlog>>
gvars == <<gnow, gadv, cachedStats, cacheTimestamp, gpc, gpending, gresp>>
lvars == <<background>>
avars == <<EXPORT_SECRET_KEY, acached, areq, apc, alog>>
xvars == <<exportVariant, xtotal, xpc, xpromise, xsources, xrows, xlog>>
pvars == <<ptotal, ppc, pparsed, presp>>
wvars == <<wcache, wev, wpending, wlog>>
vars == <<tvars, rvars, svars, cvars, fvars, uvars, bvars, dvars, gvars, lvars, avars, xvars, pvars, wvars>>

(***************************************************************************)
(* retryWithBackoff                                                        *)
(***************************************************************************)

\* JavaScript argument values: undefined, a number, a string.
Undef == [t |-> "undef", n |-> 0]
Num(k) == [t |-> "num", n |-> k]
Str == [t |-> "str", n |-> 0]

DefaultRetries == 3

\* A default parameter value applies when the argument is undefined.
Default(a, d) == IF a.t = "undef" THEN Num(d) ELSE a

\* i < retries: a string that is no numeral converts to NaN, and every
\* comparison with NaN is false.
JsLess(i, r) == r.t = "num" /\ i < r.n

\* i === retries - 1 (utils.js, part_005 tests i < retries - 1 instead)
LastAttemptOffByOne(i, r) == r.t = "num" /\ i = r.n
LastAttempt(i, r) == r.t = "num" /\ i = r.n - 1

Pow2(k) == 2 ^ k

NoResult == [kind |-> "pending", val |-> 0, calls |-> 0, waits |-> <<>>]
Completion(kind, val, calls, waits) ==
    [kind |-> kind, val |-> val, calls |-> calls, waits |-> waits]

\* utils.js: for (i = 0; i < retries; i++) { try { return await fn() }
\*   catch (err) { if (i === retries - 1) throw err; wait(delay * 2 ** i) } }
\* outs[k] is the outcome of the k-th call of fn; a returned value and a
\* thrown error are identified by the index of the call that produced them.
RECURSIVE LoopPositional(_, _, _, _, _)
LoopPositional(outs, retries, delay, i, waits) ==
    IF ~JsLess(i, retries) THEN Completion("undefined", 0, i, waits)
    ELSE IF outs[i + 1] = "ok" THEN Completion("return", i + 1, i + 1, waits)
    ELSE IF LastAttempt(i, retries) THEN Completion("throw", i + 1, i + 1, waits)
    ELSE LoopPositional(outs, retries, delay, i + 1,
                        Append(waits, delay.n * Pow2(i)))

\* part_005: the delay is a local that is doubled after each wait.
RECURSIVE LoopDoubling(_, _, _, _, _)
LoopDoubling(outs, retries, delay, i, waits) ==
    IF ~JsLess(i, retries) THEN Completion("undefined", 0, i, waits)
    ELSE IF outs[i + 1] = "ok" THEN Completion("return", i + 1, i + 1, waits)
    ELSE IF JsLess(i, Num(retries.n - 1))
         THEN LoopDoubling(outs, retries, Num(delay.n * 2), i + 1,
                           Append(waits, delay.n))
         ELSE Completion("throw", i + 1, i + 1, waits)

\* part_017: for (attempt = 1; attempt <= retries; attempt++) ...
\*   if (attempt === retries) throw err; wait(delay * 2 ** (attempt - 1))
RECURSIVE LoopNamed(_, _, _, _, _)
LoopNamed(outs, retries, delay, attempt, waits) ==
    IF ~JsLess(attempt - 1, retries)
        THEN Completion("undefined", 0, attempt - 1, waits)
    ELSE IF outs[attempt] = "ok"
        THEN Completion("return", attempt, attempt, waits)
    ELSE IF LastAttempt(attempt - 1, retries)
        THEN Completion("throw", attempt, attempt, waits)
    ELSE LoopNamed(outs, retries, delay, attempt + 1,
                   Append(waits, delay.n * Pow2(attempt - 1)))

RetryVariants == {"positional", "doubling", "named"}

\* The parameter each argument position binds to, per signature.
BoundRetries(variant, a2, a3) ==
    IF variant = "named" THEN Default(a3, DefaultRetries)
    ELSE Default(a2, DefaultRetries)
BoundDelay(variant, a3, a4) ==
    IF variant = "named" THEN Default(a4, 1000) ELSE Default(a3, 500)

\* retryWithBackoff(fn, a2, a3, a4) under the given signature.
retryWithBackoff(variant, outs, a2, a3, a4) ==
    LET retries == BoundRetries(variant, a2, a3)
        delay == BoundDelay(variant, a3, a4)
    IN  CASE variant = "positional" -> LoopPositional(outs, retries, delay, 0, <<>>)
          [] variant = "doubling" -> LoopDoubling(outs, retries, delay, 0, <<>>)
          [] variant = "named" -> LoopNamed(outs, retries, delay, 1, <<>>)

(***************************************************************************)
(* SpecRetry: retryWithBackoff on drawn inputs                             *)
(***************************************************************************)

MaxRetries == 4

\* What a call of fn does: it resolves, or rejects with a transient error
\* (network, 429, 5xx) or with a fatal one (bad credentials, payload
\* rejected); the catch clauses take every rejection alike.
Outcomes == [1..MaxRetries -> {"ok", "err", "fatal"}]

\* The retry budget and the base delay the caller passes (or leaves out);
\* the second argument is the budget (utils.js, part_005), where callers
\* also pass an operation name, or the operation name (part_017).
RetriesArgs == {Undef} \cup {Num(k) : k \in 1..MaxRetries}
DelayArgs == {Undef, Num(100)}

TCalls ==
    { [variant |-> v, a2 |-> x, a3 |-> y, a4 |-> Undef, outs |-> o] :
        v \in {"positional", "doubling"}, x \in RetriesArgs \cup {Str},
        y \in DelayArgs, o \in Outcomes }
    \cup
    { [variant |-> "named", a2 |-> x, a3 |-> y, a4 |-> z, outs |-> o] :
        x \in {Undef, Str}, y \in RetriesArgs, z \in DelayArgs, o \in Outcomes }

TInit ==
    /\ tcall \in TCalls
    /\ tres = NoResult

TRun ==
    /\ tres = NoResult
    /\ tres' = retryWithBackoff(tcall.variant, tcall.outs, tcall.a2, tcall.a3, tcall.a4)
    /\ UNCHANGED tcall

(***************************************************************************)
(* Record Store and Mirror Store                                           *)
(***************************************************************************)

MaxRecords == 2
MaxCheckIns == 1
MaxFaults == 1
ChunkSize == 1

Ids == 1..MaxRecords

\* checked_in_at: NULL, or the time of the check-in.
NULL == [null |-> TRUE]

\* Column L of a sheet row: empty, the text 'N/A', or a formatted time.
Blank == [k |-> "blank", t |-> 0]
NA == [k |-> "N/A", t |-> 0]
TimeText(t) == [k |-> "time", t |-> t]

\* dbRecord.checked_in_at ? new Date(...).toLocaleString(...) : 'N/A'
FormatCheckedIn(c) == IF c = NULL THEN NA ELSE TimeText(c.at)

\* What a reader of the sheet takes a cell of column L to say.
CellCheckedIn(cell) ==
    IF cell.k = "time" THEN [null |-> FALSE, at |-> cell.t] ELSE NULL

Header == [id |-> 0, cell |-> Blank]

\* A row of the grid that holds no value: values.get returns it as [].
EmptyRow == [id |-> -1, cell |-> Blank]

\* The 12-column row the Reconciler writes for a dirty record.
newRowData(dbRecord) == [id |-> dbRecord.id, cell |-> FormatCheckedIn(dbRecord.cin)]

\* The schema's default for needs_sync: the INSERT names no such column.
NeedsSyncDefaultFalse == FALSE
NeedsSyncDefault == TRUE

Absent == [present |-> FALSE, cin |-> NULL, needsSync |-> FALSE]

\* INSERT INTO registrations (...) VALUES (...): checked_in_at is not named.
InsertedRow == [present |-> TRUE, cin |-> NULL, needsSync |-> NeedsSyncDefault]

\* SELECT * FROM registrations WHERE needs_sync = true ORDER BY timestamp ASC
\* (ids are handed out in order of creation, so id order is timestamp order).
RECURSIVE DirtyFrom(_, _)
DirtyFrom(rs, k) ==
    IF k > MaxRecords THEN <<>>
    ELSE (IF rs[k].present /\ rs[k].needsSync
          THEN <<[id |-> k, cin |-> rs[k].cin]>> ELSE <<>>) \o DirtyFrom(rs, k + 1)
ListDirty(rs) == DirtyFrom(rs, 1)

SeqIds(q) == {q[j].id : j \in 1..Len(q)}

\* UPDATE registrations SET needs_sync = false WHERE registration_id = ANY(ids)
ClearAllFlags(rs, ids) == [k \in Ids |-> [rs[k] EXCEPT !.needsSync = FALSE]]
ClearOldestFlag(rs, ids) ==
    [k \in Ids |-> IF k \in ids /\ \A j \in ids : k <= j
                   THEN [rs[k] EXCEPT !.needsSync = FALSE] ELSE rs[k]]
ClearFlags(rs, ids) ==
    [k \in Ids |-> IF k \in ids THEN [rs[k] EXCEPT !.needsSync = FALSE] ELSE rs[k]]

\* The UPDATE below with its WHERE clause left out.
UnmarkEveryRow(rs, id) ==
    [k \in Ids |-> IF rs[k].present
                   THEN [rs[k] EXCEPT !.cin = NULL, !.needsSync = TRUE] ELSE rs[k]]

\* UPDATE registrations SET checked_in_at = NULL, needs_sync = true
\*  WHERE registration_id = $1
UnmarkCheckedIn(rs, id) ==
    [rs EXCEPT ![id] = [@ EXCEPT !.cin = NULL, !.needsSync = TRUE]]

\* sheetValues.forEach((row, index) => { if (regId) sheetMap.set(regId, index + 1) })
RECURSIVE MapFromFirst(_, _, _)
MapFromFirst(values, index, m) ==
    IF index > Len(values) THEN m
    ELSE IF values[index] = EmptyRow.id \/ values[index] \in DOMAIN m
         THEN MapFromFirst(values, index + 1, m)
    ELSE MapFromFirst(values, index + 1,
                      [k \in DOMAIN m \cup {values[index]} |->
                         IF k = values[index] THEN index ELSE m[k]])
RECURSIVE MapFrom(_, _, _)
MapFrom(values, index, m) ==
    IF index > Len(values) THEN m
    ELSE IF values[index] = EmptyRow.id THEN MapFrom(values, index + 1, m)
    ELSE MapFrom(values, index + 1,
                 [k \in DOMAIN m \cup {values[index]} |->
                    IF k = values[index] THEN index ELSE m[k]])
BuildSheetMap(values) == MapFrom(values, 1, <<>>)

ColumnA(s) == [j \in 1..Len(s) |-> s[j].id]

\* for (const dbRecord of dbRecordsToSync) { if (sheetMap.has(id)) update else append }
ClassifyAppendAll(D, m, j, ups, apps) == [updates |-> <<>>, appends |-> D]
RECURSIVE Classify(_, _, _, _, _)
Classify(D, m, j, ups, apps) ==
    IF j > Len(D) THEN [updates |-> ups, appends |-> apps]
    ELSE IF D[j].id \in DOMAIN m
         THEN Classify(D, m, j + 1,
                       Append(ups, [row |-> m[D[j].id], id |-> D[j].id, cin |-> D[j].cin]),
                       apps)
         ELSE Classify(D, m, j + 1, ups, Append(apps, D[j]))

Min(a, b) == IF a < b THEN a ELSE b

\* batch.slice(i, i + API_CHUNK_SIZE), i counted from 0
SliceInclusive(q, i, n) == SubSeq(q, i + 1, Min(i + n + 1, Len(q)))
Slice(q, i, n) == SubSeq(q, i + 1, Min(i + n, Len(q)))

\* The sheet seen down to row n: the rows below its last value are empty.
PadTo(s, n) ==
    IF Len(s) >= n THEN s ELSE s \o [j \in 1..(n - Len(s)) |-> EmptyRow]

\* The identifier in column A of row r.
RowId(s, r) == IF r <= Len(s) THEN s[r].id ELSE EmptyRow.id

\* values.batchUpdate: each {range: A<row>, values: [row]} overwrites that row.
RECURSIVE ApplyUpdates(_, _, _)
ApplyUpdates(s, chunk, j) ==
    IF j > Len(chunk) THEN s
    ELSE ApplyUpdates([PadTo(s, chunk[j].row) EXCEPT ![chunk[j].row] = newRowData(chunk[j])],
                      chunk, j + 1)

\* The updates of a chunk written on a row that held another identifier, or
\* none, when the chunk was written.
Strayed(s, chunk) ==
    {chunk[j].id : j \in {i \in 1..Len(chunk) : RowId(s, chunk[i].row) # chunk[i].id}}

\* values.append: the rows go after the last row of the table.
RowsOf(chunk) == [j \in 1..Len(chunk) |-> newRowData(chunk[j])]
ApplyAppend(s, chunk) == s \o RowsOf(chunk)

(***************************************************************************)
(* Handlers that write the Record Store                                    *)
(***************************************************************************)

rlocals == <<dbRecordsToSync, sheetMap, updateRequests, recordsToAppend, ri>>

\* Nothing outside the stores and the Reconciler moves.
RFrame == UNCHANGED <<tvars, svars, cvars, fvars, uvars, bvars, dvars, gvars, lvars, avars, xvars, pvars, wvars>>

\* submit-registration: the INSERT commits.
Register ==
    /\ \E id \in Ids :
        /\ ~recs[id].present
        /\ \A k \in Ids : k < id => recs[k].present
        /\ recs' = [recs EXCEPT ![id] = InsertedRow]
    /\ storeWrites' = TRUE
    /\ UNCHANGED <<utilsVariant, clock, sheet, faults, rpc, rlocals, rlog>>
    /\ RFrame

\* The check-in admin action: sets checked_in_at and marks the record dirty.
CheckIn ==
    /\ clock < MaxCheckIns
    /\ \E id \in Ids :
        /\ recs[id].present
        /\ recs[id].cin = NULL
        /\ recs' = [recs EXCEPT ![id] = [@ EXCEPT !.cin = [null |-> FALSE, at |-> clock + 1],
                                                 !.needsSync = TRUE]]
    /\ clock' = clock + 1
    /\ storeWrites' = TRUE
    /\ UNCHANGED <<utilsVariant, sheet, faults, rpc, rlocals, rlog>>
    /\ RFrame

\* unmark-checked-in with valid credentials: 200 when the row exists, 404
\* (nothing changed) when it does not.
UndoCheckIn ==
    /\ \E id \in Ids :
        IF recs[id].present
        THEN recs' = UnmarkCheckedIn(recs, id) /\ storeWrites' = TRUE
        ELSE UNCHANGED <<recs, storeWrites>>
    /\ UNCHANGED <<utilsVariant, clock, sheet, faults, rpc, rlocals, rlog>>
    /\ RFrame

(***************************************************************************)
(* The Reconciler (upsert sync)                                            *)
(***************************************************************************)

AllOk == [j \in 1..DefaultRetries |-> "ok"]
OnceErr == [j \in 1..DefaultRetries |-> IF j = 1 THEN "err" ELSE "ok"]
AllErr == [j \in 1..DefaultRetries |-> "err"]

\* What the attempts of one Mirror Store call may do: a transient error is
\* absorbed by the retry; a lasting one uses up an external failure.
AttemptPatterns == {AllOk, OnceErr} \cup (IF faults > 0 THEN {AllErr} ELSE {})

\* retryWithBackoff(() => sheets...., 'Google Sheets ...')
MirrorCall(outs) == retryWithBackoff(utilsVariant, outs, Str, Undef, Undef)

\* The record of a run: its outcome, the ids of its dirty read, the ids it
\* updated and appended, whether it called the Mirror Store, whether it ran
\* the flag-clear, the connections it acquired and released, and the ids
\* that earlier runs appended without reaching the flag-clear since.
FreshLog == [outcome |-> "running", read |-> {}, updated |-> {}, appended |-> {},
             called |-> FALSE, cleared |-> FALSE, acquired |-> 0, released |-> 0,
             quietAfterOk |-> FALSE, redo |-> {}, strayed |-> {}]

\* The run starts right after a successful run, with no Record Store write
\* committed since that run's dirty read.
StartLog ==
    [FreshLog EXCEPT !.quietAfterOk = (rlog.outcome = "ok" /\ ~storeWrites),
                     !.redo = IF rlog.outcome \in {"none", "noop", "ok"} THEN {}
                              ELSE rlog.redo \cup rlog.appended]

\* The handler's locals go with the invocation.
NoLocals ==
    /\ dbRecordsToSync' = <<>>
    /\ sheetMap' = <<>>
    /\ updateRequests' = <<>>
    /\ recordsToAppend' = <<>>
    /\ ri' = 0

\* catch (error) { return 500 }: the catch block writes nothing to the
\* Record Store, whatever was already written to the sheet.
FlagsAfterFailureCleared(rs, written) == ClearFlags(rs, written)
FlagsAfterFailure(rs, written) == rs

\* finally { if (dbClient) dbClient.release() }
Failed(log, at) == [log EXCEPT !.outcome = at, !.released = log.acquired]

\* if (updateRequests.length > 0) {...}; if (recordsToAppend.length > 0) {...}
PhaseAppendFirst(ups, apps) ==
    IF Len(apps) > 0 THEN "append" ELSE IF Len(ups) > 0 THEN "update" ELSE "clear"
PhaseAfterPlan(ups, apps) ==
    IF Len(ups) > 0 THEN "update" ELSE IF Len(apps) > 0 THEN "append" ELSE "clear"
PhaseAfterUpdates(apps) == IF Len(apps) > 0 THEN "append" ELSE "clear"

\* if (dbRecordsToSync.length === 0) return 200 "No records to sync."
NeverNoRecords(D) == FALSE
NoRecordsToSync(D) == Len(D) = 0

\* pool.connect(); SELECT ... WHERE needs_sync = true; empty -> 200, done.
RecRead ==
    /\ rpc = "idle"
    /\ \/ \* pool.connect() rejects: dbClient stays undefined
          /\ faults > 0
          /\ faults' = faults - 1
          /\ rlog' = [StartLog EXCEPT !.outcome = "fail:connect"]
          /\ UNCHANGED <<rpc, dbRecordsToSync, storeWrites>>
       \/ \* the SELECT rejects
          /\ faults > 0
          /\ faults' = faults - 1
          /\ rlog' = Failed([StartLog EXCEPT !.acquired = 1], "fail:select")
          /\ UNCHANGED <<rpc, dbRecordsToSync, storeWrites>>
       \/ LET D == ListDirty(recs)
          IN  /\ storeWrites' = FALSE
              /\ IF NoRecordsToSync(D)
                 THEN /\ rlog' = [StartLog EXCEPT !.outcome = "noop", !.acquired = 1,
                                                  !.released = 1]
                      /\ UNCHANGED <<rpc, dbRecordsToSync>>
                 ELSE /\ rlog' = [StartLog EXCEPT !.acquired = 1, !.read = SeqIds(D)]
                      /\ dbRecordsToSync' = D
                      /\ rpc' = "index"
              /\ UNCHANGED faults
    /\ UNCHANGED <<utilsVariant, recs, clock, sheet, sheetMap, updateRequests,
                   recordsToAppend, ri>>
    /\ RFrame

\* getGoogleSheetsClient(); values.get(A:A); build sheetMap; classify.
RecIndex ==
    /\ rpc = "index"
    /\ \/ \* getGoogleSheetsClient() rejects
          /\ faults > 0
          /\ faults' = faults - 1
          /\ rlog' = Failed(rlog, "fail:auth")
          /\ rpc' = "idle"
          /\ NoLocals
       \/ \E outs \in AttemptPatterns :
            LET res == MirrorCall(outs)
                called == [rlog EXCEPT !.called = @ \/ res.calls > 0]
            IN  IF res.kind = "return"
                THEN LET m == BuildSheetMap(ColumnA(sheet))
                         plan == Classify(dbRecordsToSync, m, 1, <<>>, <<>>)
                     IN  /\ sheetMap' = m
                         /\ updateRequests' = plan.updates
                         /\ recordsToAppend' = plan.appends
                         /\ ri' = 0
                         /\ rpc' = PhaseAfterPlan(plan.updates, plan.appends)
                         /\ rlog' = called
                         /\ UNCHANGED <<faults, dbRecordsToSync>>
                ELSE \* the call threw, or it returned undefined and
                     \* sheetResponse.data threw a TypeError
                     /\ faults' = IF res.kind = "throw" THEN faults - 1 ELSE faults
                     /\ rlog' = Failed(called, "fail:get")
                     /\ rpc' = "idle"
                     /\ NoLocals
    /\ UNCHANGED <<utilsVariant, recs, clock, sheet, storeWrites>>
    /\ RFrame

\* One pass of the update loop: values.batchUpdate on the next chunk.
RecUpdateChunk ==
    /\ rpc = "update"
    /\ \E outs \in AttemptPatterns :
        LET res == MirrorCall(outs)
            chunk == Slice(updateRequests, ri, ChunkSize)
            called == [rlog EXCEPT !.called = @ \/ res.calls > 0]
            more == ri + ChunkSize < Len(updateRequests)
        IN  IF res.kind = "throw"
            THEN /\ faults' = faults - 1
                 /\ rlog' = Failed(called, "fail:update")
                 /\ recs' = FlagsAfterFailure(recs, rlog.updated \cup rlog.appended)
                 /\ rpc' = "idle"
                 /\ NoLocals
                 /\ UNCHANGED sheet
            ELSE /\ IF res.kind = "return"
                    THEN /\ sheet' = ApplyUpdates(sheet, chunk, 1)
                         /\ rlog' = [called EXCEPT !.updated = @ \cup SeqIds(chunk),
                                                   !.strayed = @ \cup Strayed(sheet, chunk)]
                    ELSE /\ UNCHANGED sheet
                         /\ rlog' = called
                 /\ ri' = IF more THEN ri + ChunkSize ELSE 0
                 /\ rpc' = IF more THEN "update" ELSE PhaseAfterUpdates(recordsToAppend)
                 /\ UNCHANGED <<faults, recs, dbRecordsToSync, sheetMap, updateRequests,
                                recordsToAppend>>
    /\ UNCHANGED <<utilsVariant, clock, storeWrites>>
    /\ RFrame

\* One pass of the append loop: values.append on the next chunk.
RecAppendChunk ==
    /\ rpc = "append"
    /\ \E outs \in AttemptPatterns :
        LET res == MirrorCall(outs)
            chunk == Slice(recordsToAppend, ri, ChunkSize)
            called == [rlog EXCEPT !.called = @ \/ res.calls > 0]
            more == ri + ChunkSize < Len(recordsToAppend)
        IN  IF res.kind = "throw"
            THEN /\ faults' = faults - 1
                 /\ rlog' = Failed(called, "fail:append")
                 /\ recs' = FlagsAfterFailure(recs, rlog.updated \cup rlog.appended)
                 /\ rpc' = "idle"
                 /\ NoLocals
                 /\ UNCHANGED sheet
            ELSE /\ IF res.kind = "return"
                    THEN /\ sheet' = ApplyAppend(sheet, chunk)
                         /\ rlog' = [called EXCEPT !.appended = @ \cup SeqIds(chunk)]
                    ELSE /\ UNCHANGED sheet
                         /\ rlog' = called
                 /\ ri' = IF more THEN ri + ChunkSize ELSE 0
                 /\ rpc' = IF more THEN "append" ELSE "clear"
                 /\ UNCHANGED <<faults, recs, dbRecordsToSync, sheetMap, updateRequests,
                                recordsToAppend>>
    /\ UNCHANGED <<utilsVariant, clock, storeWrites>>
    /\ RFrame

\* UPDATE ... SET needs_sync = false WHERE registration_id = ANY(allProcessedIds)
RecClear ==
    /\ rpc = "clear"
    /\ \/ /\ recs' = ClearFlags(recs, SeqIds(dbRecordsToSync))
          /\ rlog' = [rlog EXCEPT !.outcome = "ok", !.cleared = TRUE,
                                  !.released = rlog.acquired]
          /\ UNCHANGED faults
       \/ \* the UPDATE rejects
          /\ faults > 0
          /\ faults' = faults - 1
          /\ rlog' = Failed(rlog, "fail:clear")
          /\ UNCHANGED recs
    /\ rpc' = "idle"
    /\ NoLocals
    /\ UNCHANGED <<utilsVariant, clock, sheet, storeWrites>>
    /\ RFrame

RInit ==
    /\ utilsVariant \in {"positional", "named"}
    /\ recs = [k \in Ids |-> Absent]
    /\ clock = 0
    /\ sheet = <<Header>>
    /\ faults = MaxFaults
    /\ rpc = "idle"
    /\ dbRecordsToSync = <<>>
    /\ sheetMap = <<>>
    /\ updateRequests = <<>>
    /\ recordsToAppend = <<>>
    /\ ri = 0
    /\ rlog = [FreshLog EXCEPT !.outcome = "none"]
    /\ storeWrites = FALSE

(***************************************************************************)
(* Submission and export handlers                                          *)
(***************************************************************************)

MaxInvocations == 2
MaxDbFaults == 1

Invs == 1..MaxInvocations

SubmitVariants == {"part_002", "submit-registration", "part_004"}

\* Phone fields as typed: characters, with spaces around them or alone.
Sp == " "
RawPhones == {<<"9">>, <<Sp, "9", Sp>>, <<"8">>, <<Sp>>}

\* String.prototype.trim
RECURSIVE TrimStart(_)
TrimStart(str) ==
    IF str # <<>> /\ Head(str) = Sp THEN TrimStart(Tail(str)) ELSE str
RECURSIVE TrimEnd(_)
TrimEnd(str) ==
    IF str # <<>> /\ str[Len(str)] = Sp
    THEN TrimEnd(SubSeq(str, 1, Len(str) - 1)) ELSE str
trim(str) == TrimEnd(TrimStart(str))

\* SELECT ... FROM registrations WHERE phone = $1
existingUserQuery(tbl, phone) == {row \in tbl : row.phone = phone}

\* The insert is refused with code 23505 on constraint
\* registrations_phone_key when a row already holds the phone.
NoUniqueViolation(tbl, phone) == FALSE
UniqueViolation(tbl, phone) == \E row \in tbl : row.phone = phone

\* The row an invocation inserts: the trimmed phone and the generated id.
NewRecord(i, raw) == [phone |-> trim(raw), rid |-> i]

\* A response body without registrationData.
NoData == [none |-> TRUE]

\* registrationData: the public fields of a row.
registrationData(row) == row

NoInvocation ==
    [kind |-> "none", raw |-> <<>>, ok |-> FALSE, pc |-> "new", held |-> FALSE,
     acquired |-> 0, released |-> 0, status |-> 0, data |-> NoData, dup |-> FALSE,
     existed |-> FALSE, uploaded |-> FALSE, details |-> "", cause |-> "",
     mirror |-> "none"]

\* finally { if (dbClient) dbClient.release() }; the export handler has no
\* finally clause.
Finally(r) ==
    IF r.kind = "export" \/ ~r.held THEN r
    ELSE [r EXCEPT !.held = FALSE, !.released = r.released + 1]

\* return { statusCode, body } through the handler's cleanup.
Respond(r, status, data, dup) ==
    Finally([r EXCEPT !.pc = "done", !.status = status, !.data = data, !.dup = dup])

\* err.message of a rejected connection, query or upload.
InternalErrors == {"ECONNREFUSED", "timeout"}

\* The message of the error pg throws for code 23505.
DuplicateKeyMessage == "duplicate key value violates unique constraint"

\* catch (err) { return { statusCode: 500, body: { status, error: "An
\* internal server error occurred...", details: err.message } } }
InternalServerError(r, err, dup) ==
    [Respond(r, 500, NoData, dup) EXCEPT !.details = err, !.cause = err]

\* dbClient = await pool.connect()
\* What the sheet sync that follows the INSERT did: it wrote the row, or a
\* call of it threw (or returned undefined, and reading its result threw).
MirrorOutcomes == {"ok", "failed"}

\* catch (sheetsError) { console.error(...) }: the error is logged and the
\* handler returns 200 with the new record.
SyncFailureRethrown(r, data) ==
    [InternalServerError(r, "sheets", FALSE) EXCEPT !.mirror = "failed"]
SyncFailureLogged(r, data) ==
    [Respond(r, 200, data, FALSE) EXCEPT !.mirror = "failed"]

Acquire(r, pc) == [r EXCEPT !.held = TRUE, !.acquired = r.acquired + 1, !.pc = pc]

\* dbClient.release() in the handler's body
Release(r) == [r EXCEPT !.held = FALSE, !.released = r.released + 1]

SFrame == UNCHANGED <<tvars, rvars, submitVariant, cvars, fvars, uvars, bvars, dvars, gvars, lvars, avars, xvars, pvars, wvars>>

\* An invocation arrives: a submission with its form fields, or an export
\* request with a matching or a wrong x-admin-key.
SStart ==
    /\ \E i \in Invs :
        /\ inv[i].pc = "new"
        /\ \/ \E raw \in RawPhones, ok \in BOOLEAN :
                inv' = [inv EXCEPT ![i] =
                    [NoInvocation EXCEPT !.kind = "submit", !.raw = raw, !.ok = ok,
                        !.existed = (existingUserQuery(table, trim(raw)) # {}),
                        !.pc = IF submitVariant = "submit-registration"
                               THEN "validate" ELSE "connect"]]
           \/ \E ok \in BOOLEAN :
                inv' = [inv EXCEPT ![i] =
                    IF ok THEN [NoInvocation EXCEPT !.kind = "export", !.ok = ok,
                                                    !.pc = "connect"]
                    ELSE Respond([NoInvocation EXCEPT !.kind = "export"],
                                 401, NoData, FALSE)]
    /\ UNCHANGED <<table, sfaults>>
    /\ SFrame

\* await pool.connect(): rejects, or hands out a client.
SConnect ==
    /\ \E i \in Invs :
        LET r == inv[i] IN
        /\ r.pc \in {"connect", "connect2"}
        /\ \/ /\ sfaults > 0
              /\ sfaults' = sfaults - 1
              /\ \E err \in InternalErrors :
                    inv' = [inv EXCEPT ![i] = InternalServerError(r, err, FALSE)]
           \/ /\ UNCHANGED sfaults
              /\ inv' = [inv EXCEPT ![i] =
                    Acquire(r, IF r.kind = "export" THEN "query"
                               ELSE IF submitVariant = "submit-registration"
                                       \/ r.pc = "connect2"
                                    THEN "insert" ELSE "lookup")]
    /\ UNCHANGED table
    /\ SFrame

\* The lookup by trimmed phone that part_002 and part_004 make first.
SLookup ==
    /\ \E i \in Invs :
        LET r == inv[i]
            rows == existingUserQuery(table, trim(r.raw))
        IN
        /\ r.pc = "lookup"
        /\ \/ /\ sfaults > 0
              /\ sfaults' = sfaults - 1
              /\ \E err \in InternalErrors :
                    inv' = [inv EXCEPT ![i] = InternalServerError(r, err, FALSE)]
           \/ /\ UNCHANGED sfaults
              /\ rows # {}
              /\ \E row \in rows :
                    inv' = [inv EXCEPT ![i] =
                                Respond(r, 409, registrationData(row), TRUE)]
           \/ /\ UNCHANGED sfaults
              /\ rows = {}
              /\ inv' = [inv EXCEPT ![i] =
                    IF submitVariant = "part_002"
                    THEN [Release(r) EXCEPT !.pc = "validate"]
                    ELSE [r EXCEPT !.pc = "validate"]]
    /\ UNCHANGED table
    /\ SFrame

\* Required fields, then the photo upload.
SValidate ==
    /\ \E i \in Invs :
        LET r == inv[i] IN
        /\ r.pc = "validate"
        /\ \/ /\ ~(r.ok /\ trim(r.raw) # <<>>)
              /\ UNCHANGED sfaults
              /\ inv' = [inv EXCEPT ![i] = Respond(r, 400, NoData, FALSE)]
           \/ /\ r.ok /\ trim(r.raw) # <<>>
              /\ sfaults > 0
              /\ sfaults' = sfaults - 1
              /\ \E err \in InternalErrors :
                    inv' = [inv EXCEPT ![i] = InternalServerError(r, err, FALSE)]
           \/ /\ r.ok /\ trim(r.raw) # <<>>
              /\ UNCHANGED sfaults
              /\ inv' = [inv EXCEPT ![i] = [r EXCEPT !.uploaded = TRUE, !.pc =
                    CASE submitVariant = "part_002" -> "connect2"
                      [] submitVariant = "submit-registration" -> "connect"
                      [] submitVariant = "part_004" -> "insert"]]
    /\ UNCHANGED table
    /\ SFrame

\* INSERT INTO registrations ... RETURNING *, and what each version does
\* with error 23505 on registrations_phone_key.
SInsert ==
    /\ \E i \in Invs :
        LET r == inv[i]
            newRecord == NewRecord(i, r.raw)
        IN
        /\ r.pc = "insert"
        /\ \/ /\ sfaults > 0
              /\ sfaults' = sfaults - 1
              /\ UNCHANGED table
              /\ \E err \in InternalErrors :
                    inv' = [inv EXCEPT ![i] = InternalServerError(r, err, FALSE)]
           \/ /\ UniqueViolation(table, newRecord.phone)
              /\ UNCHANGED <<table, sfaults>>
              /\ inv' = [inv EXCEPT ![i] =
                    IF submitVariant = "part_004"
                    THEN InternalServerError(r, DuplicateKeyMessage, TRUE)
                    ELSE Respond(r, 409, NoData, TRUE)]
           \/ /\ ~UniqueViolation(table, newRecord.phone)
              /\ UNCHANGED sfaults
              /\ table' = table \cup {newRecord}
              /\ \E m \in MirrorOutcomes :
                    inv' = [inv EXCEPT ![i] =
                        IF m = "failed"
                        THEN SyncFailureLogged(r, registrationData(newRecord))
                        ELSE [Respond(r, 200, registrationData(newRecord), FALSE)
                                EXCEPT !.mirror = "ok"]]
    /\ SFrame

\* The export handler: const { rows } = await client.query(...);
\* client.release(); a rejected query leaves the try block before the
\* release.
SExportQuery ==
    /\ \E i \in Invs :
        LET r == inv[i] IN
        /\ r.pc = "query"
        /\ \/ /\ sfaults > 0
              /\ sfaults' = sfaults - 1
              /\ \E err \in InternalErrors :
                    inv' = [inv EXCEPT ![i] = InternalServerError(r, err, FALSE)]
           \/ /\ UNCHANGED sfaults
              /\ inv' = [inv EXCEPT ![i] = Respond(Release(r), 200, NoData, FALSE)]
    /\ UNCHANGED table
    /\ SFrame

\* No invocation has arrived and the table is empty.
SPark ==
    /\ submitVariant = "submit-registration"
    /\ table = {}
    /\ inv = [i \in Invs |-> NoInvocation]
    /\ sfaults = 0

(***************************************************************************)
(* The chunk loops at the configured chunk size                            *)
(***************************************************************************)

API_CHUNK_SIZE == 500

MaxBatch == 1001

\* for (let i = 0; i < batch.length; i += API_CHUNK_SIZE) {
\*     const chunk = batch.slice(i, i + API_CHUNK_SIZE); await <Sheets call>(chunk) }
ChunkCall ==
    /\ cpc = "loop"
    /\ ci < Len(cbatch)
    /\ ccalls' = Append(ccalls, Slice(cbatch, ci, API_CHUNK_SIZE))
    /\ ci' = ci + API_CHUNK_SIZE
    /\ UNCHANGED <<cbatch, cdirty, cpc>>
    /\ UNCHANGED <<tvars, rvars, svars, fvars, uvars, bvars, dvars, gvars, lvars, avars, xvars, pvars, wvars>>

\* The loop condition fails: on to the flag-clear.
ChunkLoopEnd ==
    /\ cpc = "loop"
    /\ ~(ci < Len(cbatch))
    /\ cpc' = "clear"
    /\ UNCHANGED <<cbatch, ci, ccalls, cdirty>>
    /\ UNCHANGED <<tvars, rvars, svars, fvars, uvars, bvars, dvars, gvars, lvars, avars, xvars, pvars, wvars>>

\* UPDATE registrations SET needs_sync = false WHERE registration_id = ANY(ids)
ChunkClear ==
    /\ cpc = "clear"
    /\ cdirty' = cdirty \ {cbatch[j] : j \in 1..Len(cbatch)}
    /\ cpc' = "done"
    /\ UNCHANGED <<cbatch, ci, ccalls>>
    /\ UNCHANGED <<tvars, rvars, svars, fvars, uvars, bvars, dvars, gvars, lvars, avars, xvars, pvars, wvars>>

\* No run of the full-size loop is in progress.
CPark ==
    /\ cbatch = <<>>
    /\ ci = 0
    /\ ccalls = <<>>
    /\ cdirty = {}
    /\ cpc = "done"

(***************************************************************************)
(* Submission handlers that allocate sequential registration ids          *)
(***************************************************************************)

IdVariants == {"part_000", "part_005", "firestore"}

FPhones == {"p", "q"}

\* The sheet's header row.
FHeader == [rid |-> -1, phone |-> "Phone"]

NoFInvocation ==
    [phone |-> "", pc |-> "new", nextId |-> 0, uploaded |-> FALSE, wrote |-> FALSE,
     status |-> 0]

\* return { statusCode }
FRespond(r, status) == [r EXCEPT !.pc = "done", !.status = status]

\* snapshot.empty / duplicateRowIndex === -1
PhoneKnown(phone) ==
    IF idVariant = "firestore" THEN fdocs[phone] # 0
    ELSE \E k \in 1..Len(fsheet) : fsheet[k].phone = phone

FFrame == UNCHANGED <<tvars, rvars, svars, cvars, idVariant, uvars, bvars, dvars, gvars, lvars, avars, xvars, pvars, wvars>>

\* An invocation arrives; missing fields or files are answered 400.
FStart ==
    /\ \E i \in Invs, phone \in FPhones, ok \in BOOLEAN :
        /\ finv[i].pc = "new"
        /\ finv' = [finv EXCEPT ![i] =
              IF ~ok THEN FRespond([NoFInvocation EXCEPT !.phone = phone], 400)
              ELSE [NoFInvocation EXCEPT !.phone = phone,
                        !.pc = IF idVariant = "part_000" THEN "upload" ELSE "lookup"]]
    /\ UNCHANGED <<fcount, fdocs, fsheet, ffaults>>
    /\ FFrame

\* part_005: the phone column of the sheet; firestore: where('phone', '==', phone)
FLookup ==
    /\ \E i \in Invs :
        LET r == finv[i] IN
        /\ r.pc = "lookup"
        /\ \/ /\ ffaults > 0
              /\ ffaults' = ffaults - 1
              /\ finv' = [finv EXCEPT ![i] = FRespond(r, 500)]
           \/ /\ UNCHANGED ffaults
              /\ finv' = [finv EXCEPT ![i] =
                    IF PhoneKnown(r.phone) THEN FRespond(r, 409)
                    ELSE [r EXCEPT !.pc = IF idVariant = "firestore"
                                          THEN "allocate" ELSE "upload"]]
    /\ UNCHANGED <<fcount, fdocs, fsheet>>
    /\ FFrame

\* uploadToCloudinary
FUpload ==
    /\ \E i \in Invs :
        LET r == finv[i] IN
        /\ r.pc = "upload"
        /\ \/ /\ ffaults > 0
              /\ ffaults' = ffaults - 1
              /\ finv' = [finv EXCEPT ![i] = FRespond(r, 500)]
           \/ /\ UNCHANGED ffaults
              /\ finv' = [finv EXCEPT ![i] =
                    [r EXCEPT !.uploaded = TRUE,
                              !.pc = IF idVariant = "part_000" THEN "allocate"
                                     ELSE "store"]]
    /\ UNCHANGED <<fcount, fdocs, fsheet>>
    /\ FFrame

\* part_000: newRowNumber = (rows of column A).length + 1;
\* firestore: the transaction that increments counters/registrations.
FAllocate ==
    /\ \E i \in Invs :
        LET r == finv[i] IN
        /\ r.pc = "allocate"
        /\ \/ /\ ffaults > 0
              /\ ffaults' = ffaults - 1
              /\ finv' = [finv EXCEPT ![i] = FRespond(r, 500)]
              /\ UNCHANGED fcount
           \/ /\ UNCHANGED ffaults
              /\ IF idVariant = "firestore"
                 THEN /\ fcount' = fcount + 1
                      /\ finv' = [finv EXCEPT ![i] =
                            [r EXCEPT !.nextId = fcount + 1, !.wrote = TRUE,
                                      !.pc = "upload"]]
                 ELSE /\ UNCHANGED fcount
                      /\ finv' = [finv EXCEPT ![i] =
                            [r EXCEPT !.nextId = Len(fsheet) + 1, !.pc = "store"]]
    /\ UNCHANGED <<fdocs, fsheet>>
    /\ FFrame

\* part_000: append the row with its id; part_005: append the row with
\* "PENDING" and take the id from the row number of the appended range;
\* firestore: registrationsRef.doc(phone).set(newRegistrationData)
FStore ==
    /\ \E i \in Invs :
        LET r == finv[i] IN
        /\ r.pc = "store"
        /\ \/ /\ ffaults > 0
              /\ ffaults' = ffaults - 1
              /\ finv' = [finv EXCEPT ![i] = FRespond(r, 500)]
              /\ UNCHANGED <<fdocs, fsheet>>
           \/ /\ UNCHANGED ffaults
              /\ CASE idVariant = "part_000" ->
                        /\ fsheet' = Append(fsheet, [rid |-> r.nextId, phone |-> r.phone])
                        /\ finv' = [finv EXCEPT ![i] =
                                        FRespond([r EXCEPT !.wrote = TRUE], 200)]
                        /\ UNCHANGED fdocs
                   [] idVariant = "part_005" ->
                        /\ fsheet' = Append(fsheet, [rid |-> 0, phone |-> r.phone])
                        /\ finv' = [finv EXCEPT ![i] =
                              [r EXCEPT !.wrote = TRUE, !.nextId = Len(fsheet) + 1,
                                        !.pc = "finish"]]
                        /\ UNCHANGED fdocs
                   [] idVariant = "firestore" ->
                        /\ fdocs' = [fdocs EXCEPT ![r.phone] = r.nextId]
                        /\ finv' = [finv EXCEPT ![i] =
                              [r EXCEPT !.wrote = TRUE, !.pc = "finish"]]
                        /\ UNCHANGED fsheet
    /\ UNCHANGED fcount
    /\ FFrame

\* part_005: values.update writes the id into the row's id cell;
\* firestore: the row is appended to the sheet, a failure is only logged.
FFinish ==
    /\ \E i \in Invs :
        LET r == finv[i] IN
        /\ r.pc = "finish"
        /\ \/ /\ ffaults > 0
              /\ ffaults' = ffaults - 1
              /\ finv' = [finv EXCEPT ![i] =
                    FRespond(r, IF idVariant = "firestore" THEN 200 ELSE 500)]
              /\ UNCHANGED fsheet
           \/ /\ UNCHANGED ffaults
              /\ fsheet' = IF idVariant = "part_005"
                           THEN [fsheet EXCEPT ![r.nextId].rid = r.nextId]
                           ELSE Append(fsheet, [rid |-> r.nextId, phone |-> r.phone])
              /\ finv' = [finv EXCEPT ![i] = FRespond(r, 200)]
    /\ UNCHANGED <<fcount, fdocs>>
    /\ FFrame

\* No invocation has arrived; the stores are empty.
FPark ==
    /\ idVariant = "firestore"
    /\ fcount = 0
    /\ fdocs = [ph \in FPhones |-> 0]
    /\ fsheet = <<FHeader>>
    /\ finv = [i \in Invs |-> NoFInvocation]
    /\ ffaults = 0

(***************************************************************************)
(* unmark-checked-in: the whole handler on drawn requests                  *)
(***************************************************************************)

\* process.env.EXPORT_SECRET_KEY
AdminSecret == "s"

\* A header or body value: absent (""), the secret, or another string.
Secrets == {"", AdminSecret, "x"}

\* event: the method, the x-admin-key header, whether JSON.parse(event.body)
\* yields an object, and that object's password and registrationId (0 when
\* it has none).
UndoRequests ==
    [method : {"POST", "GET"}, key : Secrets, json : {TRUE},
     password : Secrets, registrationId : 0..MaxRecords]
    \cup
    [method : {"POST", "GET"}, key : Secrets, json : {FALSE},
     password : {""}, registrationId : {0}]

NoUndo == [seq |-> 0, authorized |-> FALSE, id |-> 0, status |-> 0,
           acquired |-> 0, released |-> 0]

\* The answer to a request, with the connections it took from the pool and
\* gave back; authorized records what the request carried: POST, the secret
\* in x-admin-key and the secret in the body's password.
UndoAnswer(req, status, acquired) ==
    [seq |-> 1 - undo.seq,
     authorized |-> (req.method = "POST" /\ req.key = AdminSecret
                     /\ req.json /\ req.password = AdminSecret),
     id |-> req.registrationId, status |-> status,
     acquired |-> acquired, released |-> acquired]

\* exports.handler of unmark-checked-in.js, statement by statement.
UndoRequest ==
    /\ \E req \in UndoRequests :
        IF req.method # "POST"
        THEN undo' = UndoAnswer(req, 405, 0) /\ UNCHANGED <<recs, storeWrites, faults>>
        ELSE IF req.key = "" \/ req.key # AdminSecret
        THEN undo' = UndoAnswer(req, 401, 0) /\ UNCHANGED <<recs, storeWrites, faults>>
        ELSE IF ~req.json  \* JSON.parse or the destructuring throws: catch
        THEN undo' = UndoAnswer(req, 500, 0) /\ UNCHANGED <<recs, storeWrites, faults>>
        ELSE IF req.password # AdminSecret
        THEN undo' = UndoAnswer(req, 403, 0) /\ UNCHANGED <<recs, storeWrites, faults>>
        ELSE IF req.registrationId = 0
        THEN undo' = UndoAnswer(req, 400, 0) /\ UNCHANGED <<recs, storeWrites, faults>>
        ELSE \/ \* pool.connect() rejects
                /\ faults > 0
                /\ faults' = faults - 1
                /\ undo' = UndoAnswer(req, 500, 0)
                /\ UNCHANGED <<recs, storeWrites>>
             \/ \* the UPDATE rejects; finally releases
                /\ faults > 0
                /\ faults' = faults - 1
                /\ undo' = UndoAnswer(req, 500, 1)
                /\ UNCHANGED <<recs, storeWrites>>
             \/ /\ UNCHANGED faults
                /\ IF recs[req.registrationId].present
                   THEN /\ recs' = UnmarkCheckedIn(recs, req.registrationId)
                        /\ storeWrites' = TRUE
                        /\ undo' = UndoAnswer(req, 200, 1)
                   ELSE /\ undo' = UndoAnswer(req, 404, 1)
                        /\ UNCHANGED <<recs, storeWrites>>
    /\ UNCHANGED <<utilsVariant, clock, sheet, rpc, rlocals, rlog>>
    /\ UNCHANGED <<tvars, svars, cvars, fvars, bvars, dvars, gvars, lvars, avars, xvars, pvars, wvars>>

UPark == undo = NoUndo

(***************************************************************************)
(* The full rebuild: read every record, clear the sheet, write it anew     *)
(***************************************************************************)

RebuildVariants == {"part_015", "export-data"}

\* SELECT * FROM registrations ORDER BY timestamp ASC (ids are handed out in
\* order of creation, so id order is timestamp order).
RECURSIVE RowsFrom(_, _)
RowsFrom(rs, k) ==
    IF k > MaxRecords THEN <<>>
    ELSE (IF rs[k].present THEN <<k>> ELSE <<>>) \o RowsFrom(rs, k + 1)
SelectAll(rs) == RowsFrom(rs, 1)

\* dbRows.map(dbRecord => [registration_id, ..., image_url]): eleven columns,
\* none of them the check-in column.
finalSheetData(dbRows) == [j \in 1..Len(dbRows) |-> [id |-> dbRows[j], cell |-> Blank]]

\* values.clear({ range: SHEET_NAME }): no cell of the sheet keeps a value.
KeepValues(s) == s
ClearValues(s) == <<>>

\* values.update({ range: SHEET_NAME!A1, resource: { values } }): the rows of
\* values go to rows 1..Len(values); rows below them are not touched.
UpdateAtA1(s, values) ==
    [j \in 1..(IF Len(s) > Len(values) THEN Len(s) ELSE Len(values)) |->
        IF j <= Len(values) THEN values[j] ELSE s[j]]

\* part_015 passes an operation name as the second argument; export-data.js
\* passes fn alone.
RebuildCall(outs) ==
    retryWithBackoff(utilsVariant, outs,
                     IF rebuildVariant = "part_015" THEN Str ELSE Undef, Undef, Undef)

NoRebuild == [outcome |-> "none", read |-> <<>>, rowsBefore |-> 0, status |-> 0]

\* The status of a run whose Mirror Store call threw: part_015 answers 500;
\* export-data.js logs the error and goes on to return the Excel file.
SheetsErrorStatus == IF rebuildVariant = "part_015" THEN 500 ELSE 200

\* pool.connect, getGoogleSheetsClient, SELECT *, and in part_015 the read
\* of the sheet (whose result only feeds log lines and unused lists).
RebuildRead ==
    /\ bpc = "idle"
    /\ \/ \* connecting, authenticating or the SELECT rejects
          /\ faults > 0
          /\ faults' = faults - 1
          /\ blog' = [outcome |-> "fail:read", read |-> <<>>,
                      rowsBefore |-> Len(sheet), status |-> 500]
          /\ UNCHANGED <<bpc, brows>>
       \/ \E outs \in AttemptPatterns :
            LET res == RebuildCall(outs)
            IN  IF rebuildVariant = "part_015" /\ res.kind # "return"
                THEN \* values.get threw, or sheetResponse.data threw a TypeError
                     /\ faults' = IF res.kind = "throw" THEN faults - 1 ELSE faults
                     /\ blog' = [outcome |-> "fail:get", read |-> SelectAll(recs),
                                 rowsBefore |-> Len(sheet), status |-> 500]
                     /\ UNCHANGED <<bpc, brows>>
                ELSE /\ brows' = SelectAll(recs)
                     /\ bpc' = "clear"
                     /\ blog' = [outcome |-> "running", read |-> SelectAll(recs),
                                 rowsBefore |-> Len(sheet), status |-> 0]
                     /\ UNCHANGED faults
    /\ UNCHANGED <<utilsVariant, recs, clock, sheet, rpc, rlocals, rlog, storeWrites>>
    /\ UNCHANGED <<tvars, svars, cvars, fvars, uvars, rebuildVariant, dvars, gvars, lvars, avars, xvars, pvars, wvars>>

\* await retryWithBackoff(() => sheets.spreadsheets.values.clear(...))
RebuildClear ==
    /\ bpc = "clear"
    /\ \E outs \in AttemptPatterns :
        LET res == RebuildCall(outs)
        IN  IF res.kind = "throw"
            THEN /\ faults' = faults - 1
                 /\ blog' = [blog EXCEPT !.outcome = "fail:clear",
                                         !.status = SheetsErrorStatus]
                 /\ bpc' = "idle"
                 /\ brows' = <<>>
                 /\ UNCHANGED sheet
            ELSE \* the result is not used: a call that was never made and
                 \* returned undefined goes unnoticed
                 /\ sheet' = IF res.kind = "return" THEN ClearValues(sheet) ELSE sheet
                 /\ bpc' = "update"
                 /\ UNCHANGED <<faults, brows, blog>>
    /\ UNCHANGED <<utilsVariant, recs, clock, rpc, rlocals, rlog, storeWrites>>
    /\ UNCHANGED <<tvars, svars, cvars, fvars, uvars, rebuildVariant, dvars, gvars, lvars, avars, xvars, pvars, wvars>>

\* await retryWithBackoff(() => sheets.spreadsheets.values.update(...)) with
\* values = [HEADERS, ...finalSheetData], then return 200.
RebuildUpdate ==
    /\ bpc = "update"
    /\ \E outs \in AttemptPatterns :
        LET res == RebuildCall(outs)
        IN  IF res.kind = "throw"
            THEN /\ faults' = faults - 1
                 /\ blog' = [blog EXCEPT !.outcome = "fail:update",
                                         !.status = SheetsErrorStatus]
                 /\ UNCHANGED sheet
            ELSE /\ sheet' = IF res.kind = "return"
                             THEN UpdateAtA1(sheet, <<Header>> \o finalSheetData(brows))
                             ELSE sheet
                 /\ blog' = [blog EXCEPT !.outcome = "ok", !.status = 200]
                 /\ UNCHANGED faults
    /\ bpc' = "idle"
    /\ brows' = <<>>
    /\ UNCHANGED <<utilsVariant, recs, clock, rpc, rlocals, rlog, storeWrites>>
    /\ UNCHANGED <<tvars, svars, cvars, fvars, uvars, rebuildVariant, dvars, gvars, lvars, avars, xvars, pvars, wvars>>

BPark ==
    /\ rebuildVariant = "export-data"
    /\ bpc = "idle"
    /\ brows = <<>>
    /\ blog = NoRebuild

(***************************************************************************)
(* sync-with-google-sheets.js: append, update in place, delete rows        *)
(***************************************************************************)

MaxSheetRows == 3

DHeader == [phone |-> "Phone", rid |-> -1]

\* The table: at most one row per phone (registrations_phone_key).
DTables == SUBSET {[phone |-> "p", rid |-> 1], [phone |-> "q", rid |-> 2]}

\* SELECT * FROM registrations ORDER BY timestamp ASC
RECURSIVE DbRowsFrom(_, _)
DbRowsFrom(db, k) ==
    IF k > 2 THEN <<>>
    ELSE (IF \E r \in db : r.rid = k
          THEN <<CHOOSE r \in db : r.rid = k>> ELSE <<>>) \o DbRowsFrom(db, k + 1)
DbRows(db) == DbRowsFrom(db, 1)

\* new Map(sheetRows.map((row, index) => [phone, { regId, rowIndex: index + 2 }]))
\* after sheetRows.shift(): the entry of a phone is the last row below row 1
\* that carries it; 0 when the map has no entry.
SheetEntryRow(s, ph) ==
    IF \E j \in 2..Len(s) : s[j].phone = ph
    THEN CHOOSE j \in 2..Len(s) :
            s[j].phone = ph /\ \A k \in 2..Len(s) : s[k].phone = ph => k <= j
    ELSE 0

\* rowsToDelete.sort((a, b) => b.rowIndex - a.rowIndex)
RECURSIVE SortDescending(_)
SortDescending(S) ==
    IF S = {} THEN <<>>
    ELSE LET m == CHOOSE x \in S : \A y \in S : y <= x
         IN  <<m>> \o SortDescending(S \ {m})

\* Steps 3 and 4: the rows to append, the updateCells requests and the
\* deleteDimension requests, in the order they are pushed.
DeletePlan(s, dbRows) ==
    LET New(r) == SheetEntryRow(s, r.phone) = 0
        Changed(r) == SheetEntryRow(s, r.phone) # 0
                        /\ s[SheetEntryRow(s, r.phone)].rid # r.rid
        changed == SelectSeq(dbRows, Changed)
        unprocessed == {SheetEntryRow(s, s[j].phone) : j \in 2..Len(s)}
                         \ {SheetEntryRow(s, dbRows[j].phone) : j \in 1..Len(dbRows)}
    IN  [appends |-> SelectSeq(dbRows, New),
         updates |-> [j \in 1..Len(changed) |->
                        [row |-> SheetEntryRow(s, changed[j].phone), rec |-> changed[j]]],
         deletes |-> SortDescending(unprocessed)]

NoPlan == [appends |-> <<>>, updates |-> <<>>, deletes |-> <<>>]

\* deleteDimension { startIndex: rowIndex - 1, endIndex: rowIndex }
DeleteRow(s, r) ==
    IF r \in 1..Len(s) THEN SubSeq(s, 1, r - 1) \o SubSeq(s, r + 1, Len(s)) ELSE s

\* spreadsheets.batchUpdate applies its requests one after the other.
RECURSIVE ApplyCellUpdates(_, _)
ApplyCellUpdates(s, q) ==
    IF q = <<>> THEN s
    ELSE ApplyCellUpdates([s EXCEPT ![Head(q).row] = Head(q).rec], Tail(q))
RECURSIVE ApplyDeletes(_, _)
ApplyDeletes(s, q) ==
    IF q = <<>> THEN s ELSE ApplyDeletes(DeleteRow(s, Head(q)), Tail(q))

NoDeleteRun == [outcome |-> "none", before |-> <<>>, db |-> {}, appended |-> 0]

\* Steps 1 to 4: connect, read the table, the sheet and its metadata, plan.
DelRead ==
    /\ dpc = "idle"
    /\ \/ \* connecting, authenticating or the SELECT rejects
          /\ faults > 0
          /\ faults' = faults - 1
          /\ dlog' = [outcome |-> "fail:read", before |-> dsheet, db |-> ddb,
                      appended |-> 0]
          /\ UNCHANGED <<dpc, dplan>>
       \/ \E outs \in AttemptPatterns :
            LET res == MirrorCall(outs)
            IN  IF res.kind # "return"
                THEN \* values.get threw, or sheetResponse.data threw a TypeError
                     /\ faults' = IF res.kind = "throw" THEN faults - 1 ELSE faults
                     /\ dlog' = [outcome |-> "fail:get", before |-> dsheet, db |-> ddb,
                                 appended |-> 0]
                     /\ UNCHANGED <<dpc, dplan>>
                ELSE /\ dplan' = DeletePlan(dsheet, DbRows(ddb))
                     /\ dpc' = "append"
                     /\ dlog' = [outcome |-> "running", before |-> dsheet, db |-> ddb,
                                 appended |-> 0]
                     /\ UNCHANGED faults
    /\ UNCHANGED <<dsheet, ddb>>
    /\ UNCHANGED <<utilsVariant, recs, clock, sheet, rpc, rlocals, rlog, storeWrites>>
    /\ UNCHANGED <<tvars, svars, cvars, fvars, uvars, bvars, gvars, lvars, avars, xvars, pvars, wvars>>

\* if (rowsToAppend.length > 0) await retryWithBackoff(values.append ...)
DelAppend ==
    /\ dpc = "append"
    /\ IF Len(dplan.appends) = 0
       THEN /\ dpc' = "batch"
            /\ UNCHANGED <<dsheet, dplan, dlog, faults>>
       ELSE \E outs \in AttemptPatterns :
            LET res == MirrorCall(outs)
            IN  IF res.kind = "throw"
                THEN /\ faults' = faults - 1
                     /\ dlog' = [dlog EXCEPT !.outcome = "fail:append"]
                     /\ dpc' = "idle"
                     /\ dplan' = NoPlan
                     /\ UNCHANGED dsheet
                ELSE /\ dsheet' = IF res.kind = "return"
                                  THEN dsheet \o dplan.appends ELSE dsheet
                     /\ dlog' = [dlog EXCEPT !.appended = Len(dplan.appends)]
                     /\ dpc' = "batch"
                     /\ UNCHANGED <<dplan, faults>>
    /\ UNCHANGED ddb
    /\ UNCHANGED <<utilsVariant, recs, clock, sheet, rpc, rlocals, rlog, storeWrites>>
    /\ UNCHANGED <<tvars, svars, cvars, fvars, uvars, bvars, gvars, lvars, avars, xvars, pvars, wvars>>

\* if (batchUpdateRequests.length > 0) await retryWithBackoff(batchUpdate ...);
\* return 200
DelBatch ==
    /\ dpc = "batch"
    /\ IF Len(dplan.updates) + Len(dplan.deletes) = 0
       THEN /\ dlog' = [dlog EXCEPT !.outcome = "ok"]
            /\ UNCHANGED <<dsheet, faults>>
       ELSE \E outs \in AttemptPatterns :
            LET res == MirrorCall(outs)
            IN  IF res.kind = "throw"
                THEN /\ faults' = faults - 1
                     /\ dlog' = [dlog EXCEPT !.outcome = "fail:batch"]
                     /\ UNCHANGED dsheet
                ELSE /\ dsheet' = IF res.kind = "return"
                                  THEN ApplyDeletes(ApplyCellUpdates(dsheet, dplan.updates),
                                                    dplan.deletes)
                                  ELSE dsheet
                     /\ dlog' = [dlog EXCEPT !.outcome = "ok"]
                     /\ UNCHANGED faults
    /\ dpc' = "idle"
    /\ dplan' = NoPlan
    /\ UNCHANGED ddb
    /\ UNCHANGED <<utilsVariant, recs, clock, sheet, rpc, rlocals, rlog, storeWrites>>
    /\ UNCHANGED <<tvars, svars, cvars, fvars, uvars, bvars, gvars, lvars, avars, xvars, pvars, wvars>>

DPark ==
    /\ dsheet = <<DHeader>>
    /\ ddb = {}
    /\ dpc = "idle"
    /\ dplan = NoPlan
    /\ dlog = NoDeleteRun

(***************************************************************************)
(* get-stats.js: the stats query behind a five-minute in-memory cache      *)
(***************************************************************************)

MaxTicks == 4

\* const CACHE_DURATION_MS = 5 * 60 * 1000
CACHE_DURATION_MS == 5 * 60 * 1000

\* The time that passes between two steps: a millisecond, or just under or
\* exactly the cache duration.
TimeSteps == {1, CACHE_DURATION_MS - 1, CACHE_DURATION_MS}

NoStats == [null |-> TRUE]

\* The row the stats query returns, tagged with the time the query ran.
statsQuery(rs, t) ==
    [null |-> FALSE,
     totalRegistrations |-> Cardinality({k \in Ids : rs[k].present}),
     totalCheckedIn |-> Cardinality({k \in Ids : rs[k].present /\ rs[k].cin # NULL}),
     computedAt |-> t]

\* if (cachedStats && Date.now() - cacheTimestamp < CACHE_DURATION_MS)
CacheHitInclusive(stats, t, ts) == stats # NoStats /\ t - ts <= CACHE_DURATION_MS
CacheHit(stats, t, ts) == stats # NoStats /\ t - ts < CACHE_DURATION_MS

NoStatsResponse == [status |-> 0, source |-> "none", stats |-> NoStats,
                    servedAt |-> 0, storedAt |-> 0]

\* Time passes.
StatsTick ==
    /\ gadv < MaxTicks
    /\ \E d \in TimeSteps : gnow' = gnow + d
    /\ gadv' = gadv + 1
    /\ UNCHANGED <<cachedStats, cacheTimestamp, gpc, gpending, gresp>>
    /\ UNCHANGED rvars
    /\ UNCHANGED <<tvars, svars, cvars, fvars, uvars, bvars, dvars, lvars, avars, xvars, pvars, wvars>>

\* A request arrives: the key check, then the cache check.
StatsRequest ==
    /\ gpc = "idle"
    /\ \E authorized \in BOOLEAN :
        IF ~authorized
        THEN /\ gresp' = [NoStatsResponse EXCEPT !.status = 401, !.servedAt = gnow]
             /\ UNCHANGED gpc
        ELSE IF CacheHit(cachedStats, gnow, cacheTimestamp)
        THEN /\ gresp' = [status |-> 200, source |-> "cache", stats |-> cachedStats,
                          servedAt |-> gnow, storedAt |-> cacheTimestamp]
             /\ UNCHANGED gpc
        ELSE /\ gpc' = "query"
             /\ UNCHANGED gresp
    /\ UNCHANGED <<gnow, gadv, cachedStats, cacheTimestamp, gpending>>
    /\ UNCHANGED rvars
    /\ UNCHANGED <<tvars, svars, cvars, fvars, uvars, bvars, dvars, lvars, avars, xvars, pvars, wvars>>

\* dbClient = await pool.connect(); const { rows } = await dbClient.query(...)
StatsQuery ==
    /\ gpc = "query"
    /\ \/ \* the connection or the query rejects: catch, 500
          /\ faults > 0
          /\ faults' = faults - 1
          /\ gresp' = [NoStatsResponse EXCEPT !.status = 500, !.servedAt = gnow]
          /\ gpc' = "idle"
          /\ UNCHANGED gpending
       \/ /\ gpending' = statsQuery(recs, gnow)
          /\ gpc' = "store"
          /\ UNCHANGED <<faults, gresp>>
    /\ UNCHANGED <<gnow, gadv, cachedStats, cacheTimestamp>>
    /\ UNCHANGED <<utilsVariant, recs, clock, sheet, rpc, rlocals, rlog, storeWrites>>
    /\ UNCHANGED <<tvars, svars, cvars, fvars, uvars, bvars, dvars, lvars, avars, xvars, pvars, wvars>>

\* cachedStats = stats; cacheTimestamp = Date.now(); return 200
StatsStore ==
    /\ gpc = "store"
    /\ cachedStats' = gpending
    /\ cacheTimestamp' = gnow
    /\ gresp' = [status |-> 200, source |-> "db", stats |-> gpending,
                 servedAt |-> gnow, storedAt |-> gnow]
    /\ gpc' = "idle"
    /\ gpending' = NoStats
    /\ UNCHANGED <<gnow, gadv>>
    /\ UNCHANGED rvars
    /\ UNCHANGED <<tvars, svars, cvars, fvars, uvars, bvars, dvars, lvars, avars, xvars, pvars, wvars>>

GPark ==
    /\ gnow = 0
    /\ gadv = 0
    /\ cachedStats = NoStats
    /\ cacheTimestamp = 0
    /\ gpc = "idle"
    /\ gpending = NoStats
    /\ gresp = NoStatsResponse

(***************************************************************************)
(* submit-registration.js: the fire-and-forget append of the new row, and  *)
(* the Reconciler and the full rebuild writing the same sheet              *)
(***************************************************************************)

\* newRowData of the background append: eleven columns, none of them the
\* check-in column.
LiveRow(id) == [id |-> id, cell |-> Blank]

\* values.append({ range: SHEET_NAME!A1 }): the row goes below the table that
\* starts at A1, which ends above the first empty row.
RECURSIVE FirstEmptyRow(_, _)
FirstEmptyRow(s, j) ==
    IF j > Len(s) \/ s[j] = EmptyRow THEN j ELSE FirstEmptyRow(s, j + 1)
AppendAtA1(s, row) ==
    LET at == FirstEmptyRow(s, 1)
    IN  [PadTo(s, at) EXCEPT ![at] = row]

\* The handler inserts the record, starts the background append and answers.
RegisterLive ==
    /\ \E id \in Ids :
        /\ ~recs[id].present
        /\ \A k \in Ids : k < id => recs[k].present
        /\ recs' = [recs EXCEPT ![id] = InsertedRow]
        /\ background' = background \cup {id}
    /\ storeWrites' = TRUE
    /\ UNCHANGED <<utilsVariant, clock, sheet, faults, rpc, rlocals, rlog>>
    /\ UNCHANGED <<tvars, svars, cvars, fvars, uvars, bvars, dvars, gvars, avars, xvars, pvars, wvars>>

\* The background append completes: retryWithBackoff(() => values.append(...))
\* returns, or throws and the catch block logs the error.
LiveAppend ==
    /\ \E id \in background :
        /\ background' = background \ {id}
        /\ \E outs \in AttemptPatterns :
            LET res == retryWithBackoff(utilsVariant, outs, Undef, Undef, Undef)
            IN  /\ sheet' = IF res.kind = "return" THEN AppendAtA1(sheet, LiveRow(id))
                            ELSE sheet
                /\ faults' = IF res.kind = "throw" THEN faults - 1 ELSE faults
    /\ UNCHANGED <<utilsVariant, recs, clock, rpc, rlocals, rlog, storeWrites>>
    /\ UNCHANGED <<tvars, svars, cvars, fvars, uvars, bvars, dvars, gvars, avars, xvars, pvars, wvars>>

LPark == background = {}

(***************************************************************************)
(* The key check that opens every admin handler: get-stats,                *)
(* list-registrations, search-user, export-data and unmark-checked-in      *)
(***************************************************************************)

\* The value of a header the request does not carry and of an environment
\* variable that is not set (undefined); no key or secret is this text.
Unset == "undefined"

\* event.headers["x-admin-key"] and process.env.EXPORT_SECRET_KEY
HeaderKeys == {Unset, "", AdminSecret, "x"}
SecretKeys == {Unset, "", AdminSecret}

\* if (!providedKey || providedKey !== secretKey) return 401
KeyRejectedCompareOnly(providedKey, secretKey) == providedKey # secretKey
KeyRejected(providedKey, secretKey) ==
    \/ providedKey \in {Unset, ""}
    \/ providedKey # secretKey

AdminEndpoints == {"get-stats", "list-registrations", "search-user",
                   "export-data", "unmark-checked-in"}

\* event: the handler addressed, the method, the x-admin-key header, and
\* whether the rest of the request passes the handler's validation (search:
\* a phone or a registration id; undo: a body with the password and an id).
AdminRequests ==
    [endpoint : AdminEndpoints, method : {"GET", "POST"}, key : HeaderKeys,
     valid : BOOLEAN]

NoAdminRequest == [endpoint |-> "none", method |-> "GET", key |-> Unset,
                   valid |-> FALSE]

NoAdminLog == [status |-> 0, cacheRead |-> FALSE, connected |-> FALSE,
               data |-> FALSE]

\* The statements of a handler up to its first await: the key check, with
\* the method check before it (unmark-checked-in) or after it (list, search),
\* the validation of the input, and in get-stats the look at the cache.
AdminRequest ==
    /\ apc = "idle"
    /\ \E req \in AdminRequests :
        /\ areq' = req
        /\ IF req.endpoint = "unmark-checked-in" /\ req.method # "POST"
           THEN alog' = [NoAdminLog EXCEPT !.status = 405] /\ UNCHANGED apc
           ELSE IF KeyRejected(req.key, EXPORT_SECRET_KEY)
           THEN alog' = [NoAdminLog EXCEPT !.status = 401] /\ UNCHANGED apc
           ELSE IF req.endpoint \in {"list-registrations", "search-user"}
                   /\ req.method # "GET"
           THEN alog' = [NoAdminLog EXCEPT !.status = 405] /\ UNCHANGED apc
           ELSE IF req.endpoint = "search-user" /\ ~req.valid
           THEN alog' = [NoAdminLog EXCEPT !.status = 400] /\ UNCHANGED apc
           ELSE IF req.endpoint = "unmark-checked-in" /\ ~req.valid
           THEN /\ \E st \in {500, 403, 400} :
                      alog' = [NoAdminLog EXCEPT !.status = st]
                /\ UNCHANGED apc
           ELSE IF req.endpoint = "get-stats"
           THEN \E fresh \in BOOLEAN :
                  IF acached /\ fresh
                  THEN /\ alog' = [status |-> 200, cacheRead |-> TRUE,
                                   connected |-> FALSE, data |-> TRUE]
                       /\ UNCHANGED apc
                  ELSE /\ alog' = [NoAdminLog EXCEPT !.cacheRead = TRUE]
                       /\ apc' = "connect"
           ELSE /\ alog' = NoAdminLog
                /\ apc' = "connect"
    /\ UNCHANGED <<EXPORT_SECRET_KEY, acached>>
    /\ UNCHANGED <<tvars, rvars, svars, cvars, fvars, uvars, bvars, dvars, gvars, lvars, xvars, pvars, wvars>>

\* dbClient = await pool.connect(): a connection, or the catch block's 500
AdminConnect ==
    /\ apc = "connect"
    /\ \/ /\ alog' = [alog EXCEPT !.connected = TRUE]
          /\ apc' = "query"
       \/ /\ alog' = [alog EXCEPT !.status = 500]
          /\ apc' = "idle"
    /\ UNCHANGED <<EXPORT_SECRET_KEY, acached, areq>>
    /\ UNCHANGED <<tvars, rvars, svars, cvars, fvars, uvars, bvars, dvars, gvars, lvars, xvars, pvars, wvars>>

\* await dbClient.query(...): the rows go into the response (get-stats
\* keeps them as cachedStats), or the query rejects and the answer is 500
AdminQuery ==
    /\ apc = "query"
    /\ \/ /\ alog' = [alog EXCEPT !.status = 200, !.data = TRUE]
          /\ acached' = (acached \/ areq.endpoint = "get-stats")
       \/ /\ alog' = [alog EXCEPT !.status = 500]
          /\ UNCHANGED acached
    /\ apc' = "idle"
    /\ UNCHANGED <<EXPORT_SECRET_KEY, areq>>
    /\ UNCHANGED <<tvars, rvars, svars, cvars, fvars, uvars, bvars, dvars, gvars, lvars, xvars, pvars, wvars>>

APark ==
    /\ EXPORT_SECRET_KEY = AdminSecret
    /\ acached = FALSE
    /\ areq = NoAdminRequest
    /\ apc = "idle"
    /\ alog = NoAdminLog

(***************************************************************************)
(* export-data: the xlsx export that awaits one promise wrapped around the *)
(* database stream and the workbook writer                                 *)
(***************************************************************************)

\* export-data.js (1-113) buffers the workbook and returns it; part_010
\* streams it to the upload and returns the download URL.
ExportVariants == {"export-data", "part_010"}

NoExportLog == [key |-> Unset, status |-> 0, acquired |-> 0, released |-> 0,
                failure |-> "none"]

\* The key check, after which the request enters the try block. part_010
\* creates the promise first and acquires the connection inside its async
\* executor.
ExportStart ==
    /\ xpc = "idle"
    /\ \E key \in HeaderKeys :
        IF KeyRejected(key, EXPORT_SECRET_KEY)
        THEN /\ xlog' = [xlog EXCEPT !.key = key, !.status = 401]
             /\ xpc' = "done"
             /\ UNCHANGED <<xpromise, xsources>>
        ELSE /\ xlog' = [xlog EXCEPT !.key = key]
             /\ xpc' = "connect"
             /\ xpromise' = IF exportVariant = "part_010" THEN "pending" ELSE "none"
             /\ xsources' = {"connect"}
    /\ UNCHANGED <<exportVariant, xtotal, xrows>>
    /\ UNCHANGED <<tvars, rvars, svars, cvars, fvars, uvars, bvars, dvars, gvars, lvars, avars, pvars, wvars>>

\* dbClient = await pool.connect(). When it rejects, export-data.js is in its
\* try block and answers 500; in part_010 the rejection is that of the async
\* executor, which nothing handles, and the promise stays pending.
ExportConnect ==
    /\ xpc = "connect"
    /\ \/ /\ xlog' = [xlog EXCEPT !.acquired = 1]
          /\ xpc' = "await"
          /\ xpromise' = "pending"
          /\ xsources' = {"dbStream"}
       \/ /\ IF exportVariant = "part_010"
             THEN /\ xlog' = [xlog EXCEPT !.failure = "connect"]
                  /\ xpc' = "await"
                  /\ UNCHANGED xpromise
             ELSE /\ xlog' = [xlog EXCEPT !.failure = "connect", !.status = 500]
                  /\ xpc' = "done"
                  /\ UNCHANGED xpromise
          /\ xsources' = {}
    /\ UNCHANGED <<exportVariant, xtotal, xrows>>
    /\ UNCHANGED <<tvars, rvars, svars, cvars, fvars, uvars, bvars, dvars, gvars, lvars, avars, pvars, wvars>>

\* dbStream.on('data', row => worksheet.addRow(row).commit())
ExportData ==
    /\ xpc = "await"
    /\ "dbStream" \in xsources
    /\ xrows < xtotal
    /\ xrows' = xrows + 1
    /\ UNCHANGED <<exportVariant, xtotal, xpc, xpromise, xsources, xlog>>
    /\ UNCHANGED <<tvars, rvars, svars, cvars, fvars, uvars, bvars, dvars, gvars, lvars, avars, pvars, wvars>>

\* dbStream.on('error', err => reject(err))
ExportStreamError ==
    /\ xpc = "await"
    /\ "dbStream" \in xsources
    /\ xpromise' = "rejected"
    /\ xsources' = {}
    /\ xlog' = [xlog EXCEPT !.failure = "stream"]
    /\ UNCHANGED <<exportVariant, xtotal, xpc, xrows>>
    /\ UNCHANGED <<tvars, rvars, svars, cvars, fvars, uvars, bvars, dvars, gvars, lvars, avars, pvars, wvars>>

\* dbStream.on('end', () => workbook.commit()...)
ExportStreamEnd ==
    /\ xpc = "await"
    /\ "dbStream" \in xsources
    /\ xrows = xtotal
    /\ xsources' = {"commit"}
    /\ UNCHANGED <<exportVariant, xtotal, xpc, xpromise, xrows, xlog>>
    /\ UNCHANGED <<tvars, rvars, svars, cvars, fvars, uvars, bvars, dvars, gvars, lvars, avars, pvars, wvars>>

\* What follows a rejected workbook.commit(): export-data.js chains .then
\* only, so nothing settles the promise; part_010 chains .catch(reject).
CommitRejection(variant) == variant = "part_010"

\* workbook.commit() settles. Fulfilled, export-data.js resolves with the
\* buffer and part_010 leaves the settling to the upload's callback.
ExportCommit ==
    /\ xpc = "await"
    /\ "commit" \in xsources
    /\ \/ /\ IF exportVariant = "part_010"
             THEN xsources' = {"upload"} /\ UNCHANGED xpromise
             ELSE xsources' = {} /\ xpromise' = "resolved"
          /\ UNCHANGED xlog
       \/ /\ xsources' = {}
          /\ xpromise' = IF CommitRejection(exportVariant) THEN "rejected" ELSE xpromise
          /\ xlog' = [xlog EXCEPT !.failure = "commit"]
    /\ UNCHANGED <<exportVariant, xtotal, xpc, xrows>>
    /\ UNCHANGED <<tvars, rvars, svars, cvars, fvars, uvars, bvars, dvars, gvars, lvars, avars, pvars, wvars>>

\* part_010: the callback of cloudinary.uploader.upload_stream
ExportUpload ==
    /\ xpc = "await"
    /\ "upload" \in xsources
    /\ xsources' = {}
    /\ \/ xpromise' = "resolved" /\ UNCHANGED xlog
       \/ xpromise' = "rejected" /\ xlog' = [xlog EXCEPT !.failure = "upload"]
    /\ UNCHANGED <<exportVariant, xtotal, xpc, xrows>>
    /\ UNCHANGED <<tvars, rvars, svars, cvars, fvars, uvars, bvars, dvars, gvars, lvars, avars, pvars, wvars>>

\* The await returns or throws: 200 or the catch block's 500, and the
\* finally block releases dbClient.
ExportReturn ==
    /\ xpc = "await"
    /\ xpromise \in {"resolved", "rejected"}
    /\ xlog' = [xlog EXCEPT !.status = IF xpromise = "resolved" THEN 200 ELSE 500,
                            !.released = xlog.acquired]
    /\ xpc' = "done"
    /\ UNCHANGED <<exportVariant, xtotal, xpromise, xsources, xrows>>
    /\ UNCHANGED <<tvars, rvars, svars, cvars, fvars, uvars, bvars, dvars, gvars, lvars, avars, pvars, wvars>>

XPark ==
    /\ exportVariant = "export-data"
    /\ xtotal = 0
    /\ xpc = "idle"
    /\ xpromise = "none"
    /\ xsources = {}
    /\ xrows = 0
    /\ xlog = NoExportLog

(***************************************************************************)
(* list-registrations.js: page and limit of the query string               *)
(***************************************************************************)

MaxQueryLen == 3
MaxTotal == 12

DEFAULT_PAGE_SIZE == 10
MAX_PAGE_SIZE == 100

\* The characters of a query value: a sign, two digits and a letter.
QueryChars == {"-", "0", "1", "x"}
DigitValue(c) == IF c = "1" THEN 1 ELSE 0

\* params.page and params.limit: undefined, or a text of these characters.
QueryTexts == UNION {[1..n -> QueryChars] : n \in 0..MaxQueryLen}
QueryValues == {[given |-> FALSE, text |-> <<>>]} \cup [given : {TRUE}, text : QueryTexts]

NaN == [nan |-> TRUE, n |-> 0]

\* The value of the longest prefix of digits of s from position j on,
\* after the digits that gave acc; any is whether a digit was read.
RECURSIVE ParseDigits(_, _, _, _)
ParseDigits(s, j, acc, any) ==
    IF j > Len(s) \/ s[j] \notin {"0", "1"}
    THEN [any |-> any, n |-> acc]
    ELSE ParseDigits(s, j + 1, 10 * acc + DigitValue(s[j]), TRUE)

\* parseInt(v, 10): NaN for undefined and for a text without a leading
\* number; otherwise the optional sign and the digits up to the first
\* character that is not one.
parseInt(v) ==
    IF ~v.given THEN NaN
    ELSE LET neg == Len(v.text) > 0 /\ v.text[1] = "-"
             d == ParseDigits(v.text, IF neg THEN 2 ELSE 1, 0, FALSE)
         IN  IF ~d.any THEN NaN
             ELSE [nan |-> FALSE, n |-> IF neg THEN 0 - d.n ELSE d.n]

\* Number.isFinite(parsed) && parsed > 0 ? parsed : fallback
PositiveOr(parsed, fallback) ==
    IF ~parsed.nan /\ parsed.n > 0 THEN parsed.n ELSE fallback

\* const safePage = Math.min(Math.max(page, 1), totalPages)
safePageUnclamped(page, totalPages) == IF page > 1 THEN page ELSE 1
safePage(page, totalPages) ==
    LET atLeastOne == IF page > 1 THEN page ELSE 1
    IN  IF atLeastOne < totalPages THEN atLeastOne ELSE totalPages

\* page, pageSize, totalPages, safePage and offset as the handler computes
\* them from the two parsed values and the count.
Paging(parsedPage, parsedLimit, total) ==
    LET page == PositiveOr(parsedPage, 1)
        requestedLimit == PositiveOr(parsedLimit, DEFAULT_PAGE_SIZE)
        pageSize == IF requestedLimit < MAX_PAGE_SIZE THEN requestedLimit ELSE MAX_PAGE_SIZE
        totalPages == IF total = 0 THEN 1 ELSE (total + pageSize - 1) \div pageSize
        safe == safePage(page, totalPages)
    IN  [total |-> total, page |-> safe, pageSize |-> pageSize,
         totalPages |-> totalPages, offset |-> (safe - 1) * pageSize]

NoPaging == [total |-> 0, page |-> 0, pageSize |-> 0, totalPages |-> 0, offset |-> 0]

\* An authorized GET: the query string is parsed, the rows are counted and
\* the page is selected.
ListRequest ==
    /\ ppc = "idle"
    /\ \E page \in QueryValues, limit \in QueryValues :
        /\ pparsed' = [page |-> parseInt(page), limit |-> parseInt(limit)]
        /\ presp' = Paging(parseInt(page), parseInt(limit), ptotal)
    /\ ppc' = "done"
    /\ UNCHANGED ptotal
    /\ UNCHANGED <<tvars, rvars, svars, cvars, fvars, uvars, bvars, dvars, gvars, lvars, avars, xvars, wvars>>

PPark ==
    /\ ptotal = 0
    /\ ppc = "idle"
    /\ pparsed = [page |-> NaN, limit |-> NaN]
    /\ presp = NoPaging

(***************************************************************************)
(* service-worker.js: the fetch listener                                   *)
(***************************************************************************)

MaxFetches == 2

\* Same-origin paths; the first is the fallback of a failed navigation.
Urls == {"/admin.html", "/verify.html"}

NoResponse == [src |-> "none", v |-> 0]

NoEvent == [method |-> "GET", sameOrigin |-> FALSE, mode |-> "none",
            url |-> "/admin.html", pc |-> "done", net |-> "none", ok |-> FALSE,
            own |-> 0, admin |-> 0, resp |-> NoResponse]

\* The requests a page can make.
FetchEvents ==
    {[NoEvent EXCEPT !.method = m, !.sameOrigin = so, !.mode = md, !.url = u] :
        m \in {"GET", "POST"}, so \in BOOLEAN, md \in {"navigate", "cors"},
        u \in Urls}

\* The listener up to its return: nothing for a request that is not a GET or
\* not same-origin, respondWith(fetch(request)...) for a navigation,
\* respondWith(caches.match(request)...) for the rest.
SwFetchEvent ==
    /\ wev.pc = "done"
    /\ \E e \in FetchEvents :
        wev' = IF e.method # "GET" \/ ~e.sameOrigin
               THEN e
               ELSE IF e.mode = "navigate"
               THEN [e EXCEPT !.pc = "fetch"]
               ELSE [e EXCEPT !.pc = "match"]
    /\ UNCHANGED <<wcache, wpending, wlog>>
    /\ UNCHANGED <<tvars, rvars, svars, cvars, fvars, uvars, bvars, dvars, gvars, lvars, avars, xvars, pvars>>

\* Whether the navigation branch stores a copy of a response: it does not
\* look at response.ok; the cache-first branch does.
NavigationCopiesIfOk(ok) == ok
NavigationCopies(ok) == TRUE

\* fetch(request) of a navigation settles: the response is returned and
\* cache.put(request, copy) is started, or the catch handler is entered.
SwNavigate ==
    /\ wev.pc = "fetch"
    /\ \/ /\ wlog.count < MaxFetches
          /\ \E ok \in BOOLEAN :
              LET n == wlog.count + 1
              IN  /\ wev' = [wev EXCEPT !.pc = "done", !.net = "response", !.ok = ok,
                                         !.resp = [src |-> "network", v |-> n]]
                  /\ wpending' = IF NavigationCopies(ok)
                                 THEN wpending \cup {[url |-> wev.url, v |-> n, method |-> wev.method]}
                                 ELSE wpending
                  /\ wlog' = [wlog EXCEPT !.count = n]
       \/ /\ wev' = [wev EXCEPT !.pc = "fallback", !.net = "failed"]
          /\ UNCHANGED <<wpending, wlog>>
    /\ UNCHANGED wcache
    /\ UNCHANGED <<tvars, rvars, svars, cvars, fvars, uvars, bvars, dvars, gvars, lvars, avars, xvars, pvars>>

\* caches.match(request).then(cached => cached || caches.match('/admin.html'))
SwFallback ==
    /\ wev.pc = "fallback"
    /\ LET cached == wcache[wev.url]
           shell == wcache["/admin.html"]
           given == IF cached # 0 THEN cached ELSE shell
       IN  wev' = [wev EXCEPT !.pc = "done", !.own = cached, !.admin = shell,
                              !.resp = IF given # 0
                                       THEN [src |-> "cache", v |-> given]
                                       ELSE [src |-> "error", v |-> 0]]
    /\ UNCHANGED <<wcache, wpending, wlog>>
    /\ UNCHANGED <<tvars, rvars, svars, cvars, fvars, uvars, bvars, dvars, gvars, lvars, avars, xvars, pvars>>

\* The other same-origin GETs: the cached response if there is one, else the
\* network's, stored when response.ok.
SwCacheFirst ==
    /\ wev.pc = "match"
    /\ IF wcache[wev.url] # 0
       THEN /\ wev' = [wev EXCEPT !.pc = "done", !.own = wcache[wev.url],
                                  !.resp = [src |-> "cache", v |-> wcache[wev.url]]]
            /\ UNCHANGED <<wpending, wlog>>
       ELSE \/ /\ wlog.count < MaxFetches
               /\ \E ok \in BOOLEAN :
                   LET n == wlog.count + 1
                   IN  /\ wev' = [wev EXCEPT !.pc = "done", !.net = "response", !.ok = ok,
                                              !.resp = [src |-> "network", v |-> n]]
                       /\ wpending' = IF ok THEN wpending \cup {[url |-> wev.url, v |-> n, method |-> wev.method]}
                                      ELSE wpending
                       /\ wlog' = [wlog EXCEPT !.count = n]
            \/ /\ wev' = [wev EXCEPT !.pc = "done", !.net = "failed",
                                     !.resp = [src |-> "error", v |-> 0]]
               /\ UNCHANGED <<wpending, wlog>>
    /\ UNCHANGED wcache
    /\ UNCHANGED <<tvars, rvars, svars, cvars, fvars, uvars, bvars, dvars, gvars, lvars, avars, xvars, pvars>>

\* caches.open(CACHE_VERSION).then(cache => cache.put(request, copy)) completes.
SwPut ==
    /\ \E p \in wpending :
        /\ wcache' = [wcache EXCEPT ![p.url] = p.v]
        /\ wpending' = wpending \ {p}
        /\ wlog' = [wlog EXCEPT !.puts = @ \cup {p}]
    /\ UNCHANGED wev
    /\ UNCHANGED <<tvars, rvars, svars, cvars, fvars, uvars, bvars, dvars, gvars, lvars, avars, xvars, pvars>>

WPark ==
    /\ wcache = [u \in Urls |-> 0]
    /\ wev = NoEvent
    /\ wpending = {}
    /\ wlog = [count |-> 0, puts |-> {}]

(***************************************************************************)
(* Specifications                                                          *)
(***************************************************************************)

\* The stores and the Reconciler; the retry utility is not under test.
Init ==
    /\ RInit
    /\ SPark
    /\ CPark
    /\ FPark
    /\ UPark
    /\ BPark
    /\ DPark
    /\ GPark
    /\ LPark
    /\ APark
    /\ XPark
    /\ PPark
    /\ WPark
    /\ tcall = [variant |-> "named", a2 |-> Str, a3 |-> Undef, a4 |-> Undef,
                outs |-> [j \in 1..MaxRetries |-> "ok"]]
    /\ tres = NoResult

Next ==
    \/ Register
    \/ CheckIn
    \/ UndoCheckIn
    \/ RecRead
    \/ RecIndex
    \/ RecUpdateChunk
    \/ RecAppendChunk
    \/ RecClear

Spec == Init /\ [][Next]_vars

\* The retry utility on drawn inputs; the stores stay as constructed.
RetryInit ==
    /\ TInit
    /\ RInit
    /\ SPark
    /\ CPark
    /\ FPark
    /\ UPark
    /\ BPark
    /\ DPark
    /\ GPark
    /\ LPark
    /\ APark
    /\ XPark
    /\ PPark
    /\ WPark
    /\ utilsVariant = "named"

RetryNext == TRun /\ UNCHANGED <<rvars, svars, cvars, fvars, uvars, bvars, dvars, gvars, lvars, avars, xvars, pvars, wvars>>

SpecRetry == RetryInit /\ [][RetryNext]_vars

\* Concurrent invocations of one deployed submission handler and of the
\* export handler; the Reconciler and the retry utility are not under test.
SubmitInit ==
    /\ RInit
    /\ utilsVariant = "named"
    /\ tcall = [variant |-> "named", a2 |-> Str, a3 |-> Undef, a4 |-> Undef,
                outs |-> [j \in 1..MaxRetries |-> "ok"]]
    /\ tres = NoResult
    /\ submitVariant \in SubmitVariants
    /\ table = {}
    /\ inv = [i \in Invs |-> NoInvocation]
    /\ sfaults = MaxDbFaults
    /\ CPark
    /\ FPark
    /\ UPark
    /\ BPark
    /\ DPark
    /\ GPark
    /\ LPark
    /\ APark
    /\ XPark
    /\ PPark
    /\ WPark

SubmitNext ==
    \/ SStart
    \/ SConnect
    \/ SLookup
    \/ SValidate
    \/ SInsert
    \/ SExportQuery

SpecSubmit == SubmitInit /\ [][SubmitNext]_vars

\* One batch of n dirty records, n drawn, through the chunk loop and the
\* flag-clear with API_CHUNK_SIZE as configured and no failure.
ChunkInit ==
    /\ RInit
    /\ utilsVariant = "named"
    /\ tcall = [variant |-> "named", a2 |-> Str, a3 |-> Undef, a4 |-> Undef,
                outs |-> [j \in 1..MaxRetries |-> "ok"]]
    /\ tres = NoResult
    /\ SPark
    /\ \E n \in 0..MaxBatch :
        /\ cbatch = [j \in 1..n |-> j]
        /\ cdirty = 1..n
    /\ ci = 0
    /\ ccalls = <<>>
    /\ cpc = "loop"
    /\ FPark
    /\ UPark
    /\ BPark
    /\ DPark
    /\ GPark
    /\ LPark
    /\ APark
    /\ XPark
    /\ PPark
    /\ WPark

ChunkNext ==
    \/ ChunkCall
    \/ ChunkLoopEnd
    \/ ChunkClear

SpecChunk == ChunkInit /\ [][ChunkNext]_vars

\* Concurrent submissions to one deployed version of the handlers that
\* number registrations sequentially.
IdsInit ==
    /\ RInit
    /\ utilsVariant = "named"
    /\ tcall = [variant |-> "named", a2 |-> Str, a3 |-> Undef, a4 |-> Undef,
                outs |-> [j \in 1..MaxRetries |-> "ok"]]
    /\ tres = NoResult
    /\ SPark
    /\ CPark
    /\ idVariant \in IdVariants
    /\ fcount = 0
    /\ fdocs = [ph \in FPhones |-> 0]
    /\ fsheet = <<FHeader>>
    /\ finv = [i \in Invs |-> NoFInvocation]
    /\ ffaults = MaxDbFaults
    /\ UPark
    /\ BPark
    /\ DPark
    /\ GPark
    /\ LPark
    /\ APark
    /\ XPark
    /\ PPark
    /\ WPark

IdsNext ==
    \/ FStart
    \/ FLookup
    \/ FUpload
    \/ FAllocate
    \/ FStore
    \/ FFinish

SpecIds == IdsInit /\ [][IdsNext]_vars

\* The Reconciler is invoked again and again, one run at a time, and each
\* of its awaited steps completes; the signature with the operation name is
\* the one deployed.
\* unmark-checked-in on drawn requests over a store of records that were
\* registered, possibly checked in, and possibly synced before; registration
\* and check-in go on between requests. The Reconciler is not under test.
UndoInit ==
    /\ utilsVariant = "named"
    /\ recs \in [Ids -> [present : BOOLEAN,
                          cin : {NULL, [null |-> FALSE, at |-> 0]},
                          needsSync : BOOLEAN]]
    /\ \A k \in Ids : recs[k].present \/ recs[k] = Absent
    /\ \A j, k \in Ids : (j < k /\ recs[k].present) => recs[j].present
    /\ clock = 0
    /\ sheet = <<Header>>
    /\ faults = MaxFaults
    /\ rpc = "idle"
    /\ dbRecordsToSync = <<>>
    /\ sheetMap = <<>>
    /\ updateRequests = <<>>
    /\ recordsToAppend = <<>>
    /\ ri = 0
    /\ rlog = [FreshLog EXCEPT !.outcome = "none"]
    /\ storeWrites = FALSE
    /\ tcall = [variant |-> "named", a2 |-> Str, a3 |-> Undef, a4 |-> Undef,
                outs |-> [j \in 1..MaxRetries |-> "ok"]]
    /\ tres = NoResult
    /\ SPark
    /\ CPark
    /\ FPark
    /\ undo = NoUndo
    /\ BPark
    /\ DPark
    /\ GPark
    /\ LPark
    /\ APark
    /\ XPark
    /\ PPark
    /\ WPark

UndoNext ==
    \/ Register
    \/ CheckIn
    \/ UndoRequest

SpecUndo == UndoInit /\ [][UndoNext]_vars

\* The rows earlier incremental runs, overlapping ones included, can have
\* left below the header: rows of existing records, in any order, possibly
\* more than once.
StaleRows(n) ==
    UNION {[1..l -> [id : 1..n, cell : {NA}]] : l \in 0..(n + 1)}

\* One rebuild handler, run again and again without overlap and with no
\* other writer of the sheet, while registrations go on.
RebuildInit ==
    /\ utilsVariant \in {"positional", "named"}
    /\ \E n \in 0..MaxRecords :
        /\ recs = [k \in Ids |-> IF k <= n THEN [InsertedRow EXCEPT !.needsSync = FALSE]
                                  ELSE Absent]
        /\ \E q \in StaleRows(n) : sheet \in {<<>>, <<Header>> \o q}
    /\ clock = 0
    /\ faults = MaxFaults
    /\ rpc = "idle"
    /\ dbRecordsToSync = <<>>
    /\ sheetMap = <<>>
    /\ updateRequests = <<>>
    /\ recordsToAppend = <<>>
    /\ ri = 0
    /\ rlog = [FreshLog EXCEPT !.outcome = "none"]
    /\ storeWrites = FALSE
    /\ tcall = [variant |-> "named", a2 |-> Str, a3 |-> Undef, a4 |-> Undef,
                outs |-> [j \in 1..MaxRetries |-> "ok"]]
    /\ tres = NoResult
    /\ SPark
    /\ CPark
    /\ FPark
    /\ UPark
    /\ DPark
    /\ GPark
    /\ LPark
    /\ APark
    /\ XPark
    /\ PPark
    /\ WPark
    /\ rebuildVariant \in RebuildVariants
    /\ bpc = "idle"
    /\ brows = <<>>
    /\ blog = NoRebuild

RebuildNext ==
    \/ Register
    \/ RebuildRead
    \/ RebuildClear
    \/ RebuildUpdate

SpecRebuild == RebuildInit /\ [][RebuildNext]_vars

\* The rows a sheet can hold below its header: rows of phones that are or
\* were registered, with the id written then, some of them more than once.
SheetRowsBelow == UNION {[1..l -> [phone : FPhones, rid : 1..2]] : l \in 0..MaxSheetRows}

\* Runs of the row-deleting sync, one at a time and with no other writer of
\* the sheet, over a drawn table and a drawn sheet.
DeleteInit ==
    /\ RInit
    /\ tcall = [variant |-> "named", a2 |-> Str, a3 |-> Undef, a4 |-> Undef,
                outs |-> [j \in 1..MaxRetries |-> "ok"]]
    /\ tres = NoResult
    /\ SPark
    /\ CPark
    /\ FPark
    /\ UPark
    /\ BPark
    /\ GPark
    /\ LPark
    /\ APark
    /\ XPark
    /\ PPark
    /\ WPark
    /\ ddb \in DTables
    /\ \E q \in SheetRowsBelow : dsheet = <<DHeader>> \o q
    /\ dpc = "idle"
    /\ dplan = NoPlan
    /\ dlog = NoDeleteRun

DeleteNext ==
    \/ DelRead
    \/ DelAppend
    \/ DelBatch

SpecDelete == DeleteInit /\ [][DeleteNext]_vars

\* One function instance serving stats requests one after the other while
\* time passes and registrations go on; the instance starts with an empty
\* cache.
StatsInit ==
    /\ RInit
    /\ utilsVariant = "named"
    /\ tcall = [variant |-> "named", a2 |-> Str, a3 |-> Undef, a4 |-> Undef,
                outs |-> [j \in 1..MaxRetries |-> "ok"]]
    /\ tres = NoResult
    /\ SPark
    /\ CPark
    /\ FPark
    /\ UPark
    /\ BPark
    /\ DPark
    /\ LPark
    /\ APark
    /\ XPark
    /\ PPark
    /\ WPark
    /\ gnow = 0
    /\ gadv = 0
    /\ cachedStats = NoStats
    /\ cacheTimestamp = 0
    /\ gpc = "idle"
    /\ gpending = NoStats
    /\ gresp = NoStatsResponse

StatsNext ==
    \/ Register
    \/ StatsTick
    \/ StatsRequest
    \/ StatsQuery
    \/ StatsStore

SpecStats == StatsInit /\ [][StatsNext]_vars

\* Registrations that append their row in the background, and Reconciler
\* runs one after the other.
LiveInit ==
    /\ RInit
    /\ utilsVariant = "named"
    /\ tcall = [variant |-> "named", a2 |-> Str, a3 |-> Undef, a4 |-> Undef,
                outs |-> [j \in 1..MaxRetries |-> "ok"]]
    /\ tres = NoResult
    /\ SPark
    /\ CPark
    /\ FPark
    /\ UPark
    /\ BPark
    /\ DPark
    /\ GPark
    /\ background = {}
    /\ APark
    /\ XPark
    /\ PPark
    /\ WPark

LiveNext ==
    \/ RegisterLive
    \/ LiveAppend
    \/ RecRead
    \/ RecIndex
    \/ RecUpdateChunk
    \/ RecAppendChunk
    \/ RecClear

SpecLive == LiveInit /\ [][LiveNext]_vars

\* The same, with the full rebuild of part_015 running beside them.
SharedInit ==
    /\ RInit
    /\ utilsVariant = "named"
    /\ tcall = [variant |-> "named", a2 |-> Str, a3 |-> Undef, a4 |-> Undef,
                outs |-> [j \in 1..MaxRetries |-> "ok"]]
    /\ tres = NoResult
    /\ SPark
    /\ CPark
    /\ FPark
    /\ UPark
    /\ rebuildVariant = "part_015"
    /\ bpc = "idle"
    /\ brows = <<>>
    /\ blog = NoRebuild
    /\ DPark
    /\ GPark
    /\ background = {}
    /\ APark
    /\ XPark
    /\ PPark
    /\ WPark

SharedNext ==
    \/ RegisterLive
    \/ LiveAppend
    \/ RecRead
    \/ RecIndex
    \/ RecUpdateChunk
    \/ RecAppendChunk
    \/ RecClear
    \/ RebuildRead
    \/ RebuildClear
    \/ RebuildUpdate

SpecShared == SharedInit /\ [][SharedNext]_vars

\* The admin handlers on drawn requests, with the secret set or not.
AdminInit ==
    /\ RInit
    /\ utilsVariant = "named"
    /\ tcall = [variant |-> "named", a2 |-> Str, a3 |-> Undef, a4 |-> Undef,
                outs |-> [j \in 1..MaxRetries |-> "ok"]]
    /\ tres = NoResult
    /\ SPark
    /\ CPark
    /\ FPark
    /\ UPark
    /\ BPark
    /\ DPark
    /\ GPark
    /\ background = {}
    /\ EXPORT_SECRET_KEY \in SecretKeys
    /\ acached = FALSE
    /\ areq = NoAdminRequest
    /\ apc = "idle"
    /\ alog = NoAdminLog
    /\ XPark
    /\ PPark
    /\ WPark

AdminNext ==
    \/ AdminRequest
    \/ AdminConnect
    \/ AdminQuery

SpecAdmin == AdminInit /\ [][AdminNext]_vars

\* One authorized export invocation of either variant over a drawn table.
ExportInit ==
    /\ RInit
    /\ utilsVariant = "named"
    /\ tcall = [variant |-> "named", a2 |-> Str, a3 |-> Undef, a4 |-> Undef,
                outs |-> [j \in 1..MaxRetries |-> "ok"]]
    /\ tres = NoResult
    /\ SPark
    /\ CPark
    /\ FPark
    /\ UPark
    /\ BPark
    /\ DPark
    /\ GPark
    /\ background = {}
    /\ APark
    /\ exportVariant \in ExportVariants
    /\ xtotal \in 0..MaxRecords
    /\ xpc = "idle"
    /\ xpromise = "none"
    /\ xsources = {}
    /\ xrows = 0
    /\ xlog = NoExportLog
    /\ PPark
    /\ WPark

ExportStep ==
    \/ ExportConnect
    \/ ExportData
    \/ ExportStreamError
    \/ ExportStreamEnd
    \/ ExportCommit
    \/ ExportUpload
    \/ ExportReturn

ExportNext ==
    \/ ExportStart
    \/ ExportConnect
    \/ ExportData
    \/ ExportStreamError
    \/ ExportStreamEnd
    \/ ExportCommit
    \/ ExportUpload
    \/ ExportReturn

SpecExport == ExportInit /\ [][ExportNext]_vars

\* list-registrations on drawn query values over a table of drawn size.
PagingInit ==
    /\ RInit
    /\ utilsVariant = "named"
    /\ tcall = [variant |-> "named", a2 |-> Str, a3 |-> Undef, a4 |-> Undef,
                outs |-> [j \in 1..MaxRetries |-> "ok"]]
    /\ tres = NoResult
    /\ SPark
    /\ CPark
    /\ FPark
    /\ UPark
    /\ BPark
    /\ DPark
    /\ GPark
    /\ background = {}
    /\ APark
    /\ XPark
    /\ ptotal \in 0..MaxTotal
    /\ ppc = "idle"
    /\ pparsed = [page |-> NaN, limit |-> NaN]
    /\ presp = NoPaging
    /\ WPark

PagingNext ==
    \/ ListRequest

SpecPaging == PagingInit /\ [][PagingNext]_vars

\* The service worker after install, which has cached the app shell or, when
\* cache.addAll failed, nothing; the responses of the shell carry a number
\* that no later network response has.
WorkerInit ==
    /\ RInit
    /\ utilsVariant = "named"
    /\ tcall = [variant |-> "named", a2 |-> Str, a3 |-> Undef, a4 |-> Undef,
                outs |-> [j \in 1..MaxRetries |-> "ok"]]
    /\ tres = NoResult
    /\ SPark
    /\ CPark
    /\ FPark
    /\ UPark
    /\ BPark
    /\ DPark
    /\ GPark
    /\ background = {}
    /\ APark
    /\ XPark
    /\ PPark
    /\ \E shell \in BOOLEAN :
          wcache = [u \in Urls |-> IF shell THEN MaxFetches + 1 ELSE 0]
    /\ wev = NoEvent
    /\ wpending = {}
    /\ wlog = [count |-> 0, puts |-> {}]

WorkerNext ==
    \/ SwFetchEvent
    \/ SwNavigate
    \/ SwFallback
    \/ SwCacheFirst
    \/ SwPut

SpecWorker == WorkerInit /\ [][WorkerNext]_vars

Reconciler == RecRead \/ RecIndex \/ RecUpdateChunk \/ RecAppendChunk \/ RecClear

FairInit == Init /\ utilsVariant = "named"

SpecFair == FairInit /\ [][Next]_vars /\ WF_vars(Reconciler)

(***************************************************************************)
(* Properties                                                              *)
(***************************************************************************)

\* Some row of the sheet carries the record's id and its current check-in.
Fresh(id) ==
    \E p \in 1..Len(sheet) :
        sheet[p].id = id /\ CellCheckedIn(sheet[p].cell) = recs[id].cin

\* The record's row is missing, or no row of it shows the current fields.
MirrorStale(id) == recs[id].present /\ ~Fresh(id)

\* C1: a record whose Mirror Store row is missing or does not reflect the
\* record's current fields has needsSync = true, in every reachable state.
C1_NoFalseNegative == \A id \in Ids : MirrorStale(id) => recs[id].needsSync

\* The undo-check-in interleaving of C1: a run has ended with its flag-clear,
\* the record is not checked in, no row of it says so, and the flag is off.
C1_UndoRaceReached ==
    \E id \in Ids :
        /\ rlog.outcome = "ok" /\ id \in rlog.read
        /\ recs[id].cin = NULL /\ ~recs[id].needsSync
        /\ MirrorStale(id)

\* C2: when the index read or a chunk raises, the run ends in failure, runs
\* no flag-clear, and every record of its dirty read is still dirty (the
\* next listDirty returns them all), also after earlier chunks were written.
C2_FailedRunKeepsDirtySet ==
    rlog.outcome \in {"fail:get", "fail:update", "fail:append"} =>
        /\ rpc = "idle"
        /\ ~rlog.cleared
        /\ rlog.read \subseteq SeqIds(ListDirty(recs))

C2_Witness ==
    /\ rlog.outcome = "fail:append"
    /\ rlog.updated # {}

\* C3: needsSync goes from true to false only in the flag-clear of a run
\* that read the record in its dirty set and completed every planned update
\* and append; no other step clears it.
C3_ClearedOnlyByCompletedRun ==
    [][\A id \in Ids :
         (recs[id].needsSync /\ ~recs'[id].needsSync) =>
            /\ rpc = "clear"
            /\ id \in SeqIds(dbRecordsToSync)
            /\ rlog.updated = SeqIds(updateRequests)
            /\ rlog.appended = SeqIds(recordsToAppend)
            /\ rlog.updated \cup rlog.appended = SeqIds(dbRecordsToSync)
            /\ rlog'.outcome = "ok"]_vars

C3_Witness ==
    /\ rlog.outcome = "ok"
    /\ rlog.cleared
    /\ \E id \in rlog.read : ~recs[id].needsSync
    /\ \E id \in Ids \ rlog.read : recs[id].needsSync

\* C4: every dirty record of a run is either updated or appended, never
\* both, and which one is decided by its presence in the index read at the
\* start of the run; a record in that index is never appended.
C4_AppendUpdatePartition ==
    /\ rpc \in {"update", "append", "clear"} =>
          /\ rlog.appended \cap DOMAIN sheetMap = {}
          /\ rlog.updated \subseteq DOMAIN sheetMap
    /\ rpc = "clear" =>
          \A id \in SeqIds(dbRecordsToSync) :
              IF id \in DOMAIN sheetMap
              THEN id \in rlog.updated /\ id \notin rlog.appended
              ELSE id \in rlog.appended /\ id \notin rlog.updated

C4_Witness ==
    /\ rpc = "clear"
    /\ rlog.updated # {}
    /\ rlog.appended # {}

\* C5: after a successful run with no Record Store write since its dirty
\* read, every record it read is clean, and the run that follows reads an
\* empty dirty set and makes no Mirror Store call.
C5_SecondRunWritesNothing ==
    /\ (rlog.outcome = "ok" /\ ~storeWrites) =>
          \A id \in rlog.read : ~recs[id].needsSync
    /\ (rlog.quietAfterOk /\ rlog.outcome # "running") =>
          /\ rlog.outcome \in {"noop", "fail:connect", "fail:select"}
          /\ ~rlog.called
          /\ rlog.updated = {} /\ rlog.appended = {}
    /\ rlog.quietAfterOk => rpc = "idle"

C5_Witness ==
    /\ rlog.quietAfterOk
    /\ rlog.outcome = "noop"
    /\ \E id \in Ids : Fresh(id)

\* C11: a run whose dirty read is empty ends at once and successfully: it
\* never reaches the Sheets client, makes no Mirror Store call, runs no
\* flag-clear, and the step changes neither the table nor the sheet.
C11_EmptyDirtySetNoCalls ==
    /\ [](rlog.read = {} =>
            /\ rlog.outcome \in {"none", "noop", "fail:connect", "fail:select"}
            /\ rpc = "idle"
            /\ ~rlog.called /\ ~rlog.cleared
            /\ rlog.updated = {} /\ rlog.appended = {})
    /\ [][(rpc = "idle" /\ ListDirty(recs) = <<>> /\ faults' = faults
            /\ (rlog' # rlog \/ (storeWrites /\ ~storeWrites')))
           => (rlog'.outcome = "noop" /\ rpc' = "idle"
               /\ recs' = recs /\ sheet' = sheet
               /\ rlog'.released = rlog'.acquired)]_vars

C11_Witness ==
    /\ rlog.outcome = "noop"
    /\ rlog.acquired = 1 /\ rlog.released = 1
    /\ \E id \in Ids : recs[id].present /\ ~recs[id].needsSync

\* ceil(n / d)
CeilDiv(n, d) == (n + d - 1) \div d

\* The rows of the calls, one call after the other.
RECURSIVE Flatten(_)
Flatten(qq) == IF qq = <<>> THEN <<>> ELSE Head(qq) \o Flatten(Tail(qq))

\* C12: a batch of n rows goes out in exactly ceil(n / 500) calls of at most
\* 500 rows each, every row in exactly one call and in the original order
\* (1001 rows: 500, 500, 1), and after the run no record of it is dirty.
C12_ChunksOfFiveHundred ==
    /\ \A k \in 1..Len(ccalls) : Len(ccalls[k]) \in 1..500
    /\ cpc \in {"clear", "done"} =>
          /\ Len(ccalls) = CeilDiv(Len(cbatch), 500)
          /\ Flatten(ccalls) = cbatch
    /\ (cpc = "done" /\ Len(cbatch) = 1001) =>
          /\ Len(ccalls) = 3
          /\ Len(ccalls[1]) = 500 /\ Len(ccalls[2]) = 500 /\ Len(ccalls[3]) = 1
    /\ cpc = "done" => cdirty = {}

C12_Witness ==
    /\ cpc = "done"
    /\ Len(cbatch) = 1001
    /\ Len(ccalls) = 3
    /\ cdirty = {}

\* C13: an invocation writes to the Record Store (the allocation of a
\* registration-id counter value included) only after its uploads have
\* succeeded; an invocation whose upload failed has written nothing.
C13_WriteOnlyAfterUpload ==
    \A i \in Invs : finv[i].wrote => finv[i].uploaded

\* C14: a submission whose phone has a record when it arrives uploads no
\* image and is not accepted (no row is inserted for it).
C14_DuplicateChangesNothing ==
    \A i \in Invs :
        (inv[i].kind = "submit" /\ inv[i].existed) =>
            /\ ~inv[i].uploaded
            /\ inv[i].status # 200

\* C15: no two stored registrations share a registration id, and an id once
\* assigned to a stored registration never changes.
C15_UniqueImmutableId ==
    /\ [](/\ \A k1, k2 \in 2..Len(fsheet) :
                (k1 # k2 /\ fsheet[k1].rid # 0) => fsheet[k1].rid # fsheet[k2].rid
          /\ \A p1, p2 \in FPhones :
                (p1 # p2 /\ fdocs[p1] # 0) => fdocs[p1] # fdocs[p2])
    /\ [][/\ \A ph \in FPhones : fdocs[ph] # 0 => fdocs'[ph] = fdocs[ph]
          /\ \A k \in 2..Len(fsheet) :
                fsheet[k].rid # 0 => fsheet'[k].rid = fsheet[k].rid]_vars

C18_UndoFrame ==
    [][undo' # undo =>
        /\ undo'.status = 200 =>
              /\ recs[undo'.id].present
              /\ recs' = [k \in Ids |->
                            IF k = undo'.id
                            THEN [present |-> TRUE, cin |-> NULL, needsSync |-> TRUE]
                            ELSE recs[k]]
              /\ clock' = clock /\ sheet' = sheet
        /\ undo'.status = 404 =>
              /\ ~recs[undo'.id].present
              /\ recs' = recs /\ storeWrites' = storeWrites
              /\ clock' = clock /\ sheet' = sheet]_vars

C18_Witness ==
    /\ undo.status = 200
    /\ recs[undo.id].cin = NULL /\ recs[undo.id].needsSync
    /\ \E k \in Ids \ {undo.id} : recs[k].present /\ recs[k].cin # NULL /\ ~recs[k].needsSync

\* C19: a request that is not a POST carrying the secret in x-admin-key and
\* in the body's password is answered 405, 401 or 403 without a connection,
\* and only a request that carries all three modifies a record.
C19_OnlyAuthorizedModifies ==
    /\ []((undo.status # 0 /\ ~undo.authorized) =>
            (undo.status \in {405, 401, 403} /\ undo.acquired = 0))
    /\ [][(undo' # undo /\ recs' # recs) => undo'.authorized]_vars

\* C20: after a rebuild that completed, the sheet is the header followed by
\* one row per record of the run's read, in ascending order of creation, and
\* nothing else; the run's read is every record the store held at the read.
C20_RebuildMirrorsRead ==
    /\ [](blog.outcome = "ok" =>
            /\ Len(sheet) = Len(blog.read) + 1
            /\ sheet[1] = Header
            /\ \A j \in 1..Len(blog.read) : sheet[j + 1].id = blog.read[j]
            /\ \A i, j \in 1..Len(blog.read) : i < j => blog.read[i] < blog.read[j])
    /\ [][(bpc = "idle" /\ bpc' = "clear") =>
            {blog'.read[j] : j \in 1..Len(blog'.read)} = {k \in Ids : recs[k].present}]_vars

C20_Witness ==
    /\ blog.outcome = "ok"
    /\ Len(blog.read) >= 1
    /\ blog.rowsBefore > Len(blog.read) + 1
    /\ \E k \in Ids : recs[k].present /\ \A j \in 1..Len(blog.read) : blog.read[j] # k

\* The phones of the rows of q, in order.
PhonesOf(q) == [j \in 1..Len(q) |-> q[j].phone]

\* C21: the delete requests are in strictly descending row position, and a
\* completed run leaves below the header exactly the rows whose phone the
\* table held at the read, in their order, followed by the rows it appended.
C21_DeletesExactlyAbsentRows ==
    /\ \A i, j \in 1..Len(dplan.deletes) : i < j => dplan.deletes[i] > dplan.deletes[j]
    /\ dlog.outcome = "ok" =>
          LET InTable(row) == \E r \in dlog.db : r.phone = row.phone
              kept == SelectSeq(Tail(dlog.before), InTable)
          IN  /\ Len(dsheet) = 1 + Len(kept) + dlog.appended
              /\ PhonesOf(SubSeq(dsheet, 2, 1 + Len(kept))) = PhonesOf(kept)

\* C22: a submission with a missing or blank required field or without its
\* file is answered 400, and nothing was uploaded or stored for it.
C22_InvalidAnswered400 ==
    \A i \in Invs :
        (inv[i].kind = "submit" /\ inv[i].pc = "done"
            /\ ~(inv[i].ok /\ trim(inv[i].raw) # <<>>)) =>
                /\ inv[i].status = 400
                /\ ~inv[i].uploaded
                /\ \A row \in table : row.rid # i

\* C23: an error response of a submission carries no message of the error
\* that caused it, and two submissions with the same input that failed at
\* the same step got the same response whatever the error was.
C23_NoInternalDetail ==
    /\ \A i \in Invs :
          (inv[i].kind = "submit" /\ inv[i].pc = "done" /\ inv[i].status # 200) =>
              inv[i].details = ""
    /\ \A i, j \in Invs :
          (inv[i].kind = "submit" /\ inv[j].kind = "submit"
              /\ inv[i].pc = "done" /\ inv[j].pc = "done"
              /\ inv[i].cause # "" /\ inv[j].cause # ""
              /\ inv[i].raw = inv[j].raw /\ inv[i].ok = inv[j].ok
              /\ inv[i].acquired = inv[j].acquired /\ inv[i].uploaded = inv[j].uploaded) =>
                  (inv[i].status = inv[j].status /\ inv[i].details = inv[j].details)

\* C24 as stated: a stats response served from the cache was computed from
\* the Record Store less than five minutes before it is served.
C24_CachedComputedWithinFiveMinutes ==
    gresp.source = "cache" =>
        gresp.servedAt - gresp.stats.computedAt < CACHE_DURATION_MS

\* A step of the handler that ends a request whose query failed.
QueryFailed == gpc = "query" /\ gpc' = "idle"

\* C24, amended: a stats response served from the cache was stored in the
\* cache less than five minutes before it is served and is the entry stored
\* then; an authorized request arriving when the entry is five minutes old
\* or older (or when there is none) goes to the Record Store, and the
\* successful query replaces the entry and its timestamp; a failed query
\* leaves the cached entry and its timestamp unchanged.
C24_CachedStoredWithinFiveMinutes ==
    /\ [](gresp.source = "cache" =>
            /\ gresp.servedAt - gresp.storedAt < CACHE_DURATION_MS
            /\ gresp.stats.computedAt <= gresp.storedAt)
    /\ [][/\ (gpc = "idle" /\ gresp' # gresp /\ gresp'.status = 200) =>
               /\ cachedStats # NoStats
               /\ gnow - cacheTimestamp < CACHE_DURATION_MS
               /\ gresp'.stats = cachedStats
               /\ gresp'.storedAt = cacheTimestamp
          /\ (gpc = "store" /\ gpc' = "idle") =>
               /\ cachedStats' = gpending
               /\ cacheTimestamp' = gnow
               /\ gresp'.stats = gpending
               /\ gresp'.source = "db"
          /\ QueryFailed =>
               /\ gresp'.status = 500
               /\ UNCHANGED <<cachedStats, cacheTimestamp>>]_vars

\* An entry stored earlier was served from the cache just before it turned
\* five minutes old, after the table had changed since the query.
C24_Witness ==
    /\ gresp.source = "cache"
    /\ gresp.servedAt - gresp.storedAt = CACHE_DURATION_MS - 1
    /\ gresp.stats.totalRegistrations < Cardinality({k \in Ids : recs[k].present})

RowsOfId(id) == {j \in 1..Len(sheet) : sheet[j].id = id}

\* C26: after any sequence of registrations, each appending its row in the
\* background, and of Reconciler runs that do not overlap, no registration
\* id occupies more than one row of the sheet.
C26_OneRowPerId == \A id \in Ids : Cardinality(RowsOfId(id)) <= 1

\* C27: every in-place update the Reconciler writes lands on a row whose
\* identifier is the updated record's registration id, also when a full
\* rebuild changes the sheet between the run's index read and the write.
C27_UpdateLandsOnOwnRow == rlog.strayed = {}

C30_SyncFailureKeepsSuccess ==
    \A i \in Invs :
        inv[i].mirror = "failed" =>
            /\ inv[i].pc = "done"
            /\ inv[i].status = 200
            /\ inv[i].data = registrationData(NewRecord(i, inv[i].raw))
            /\ NewRecord(i, inv[i].raw) \in table

\* A submission was stored, its sheet sync failed, and it was answered 200,
\* while another submission's sync went through.
C30_Witness ==
    \E i, j \in Invs :
        /\ inv[i].mirror = "failed" /\ inv[i].status = 200
        /\ inv[j].mirror = "ok"

\* C31: when a rebuild has ended, with or without success, the sheet holds
\* the complete new content (the header and one row per record read) or is
\* as long as it was when the run started, its previous content untouched
\* (the rebuild is the only writer here, and its writes are a clear of the
\* whole sheet and the write of the new content); it is never left cleared
\* or partly written.
C31_RebuildAllOrNothing ==
    (bpc = "idle" /\ blog.outcome # "none") =>
        \/ sheet = <<Header>> \o finalSheetData(blog.read)
        \/ Len(sheet) = blog.rowsBefore

\* C32: after a run of the insert/update/delete sync that completed, the
\* sheet holds below its header exactly one row for each row of the table,
\* matched by phone, and no row whose phone the table does not hold.
C32_OneRowPerRecord ==
    dlog.outcome = "ok" =>
        /\ \A r \in dlog.db :
              Cardinality({j \in 2..Len(dsheet) : dsheet[j].phone = r.phone}) = 1
        /\ \A j \in 2..Len(dsheet) : \E r \in dlog.db : r.phone = dsheet[j].phone

\* C33: the index a run builds maps each identifier of column A to the row
\* of its last occurrence; a run's index read fails only when a call of it
\* fails, whatever identifiers the column repeats; and an update chunk
\* changes, for each record in it, the row of that last occurrence and no
\* other row.
C33_LastOccurrenceWins ==
    /\ [][(rpc = "index" /\ rpc' \notin {"index", "idle"}) =>
            /\ DOMAIN sheetMap' = {sheet[j].id : j \in 1..Len(sheet)} \ {EmptyRow.id}
            /\ \A id \in DOMAIN sheetMap' :
                  /\ sheet[sheetMap'[id]].id = id
                  /\ \A j \in 1..Len(sheet) : sheet[j].id = id => j <= sheetMap'[id]
            /\ \A j \in 1..Len(updateRequests') :
                  updateRequests'[j].row = sheetMap'[updateRequests'[j].id]]_vars
    /\ [][(rpc = "index" /\ rpc' = "idle") => faults' < faults]_vars
    /\ [][(rpc = "update" /\ rlog' # rlog) =>
            \A j \in 1..Len(sheet) :
                sheet'[j] # sheet[j] =>
                    \E u \in 1..Len(updateRequests) :
                        /\ updateRequests[u].row = j
                        /\ j = sheetMap[updateRequests[u].id]
                        /\ sheet'[j].id = updateRequests[u].id]_vars

\* A completed run updated a record whose identifier two rows carry: the
\* last of them has the run's data, the first still has what it had.
C33_Witness ==
    \E id \in Ids :
        /\ rlog.outcome = "ok"
        /\ id \in rlog.updated
        /\ Cardinality(RowsOfId(id)) = 2
        /\ \E i, j \in RowsOfId(id) :
              i < j /\ sheet[i].cell = Blank /\ sheet[j].cell = NA

\* C34: within a run no append chunk has been executed while an update
\* chunk is still to come, the appends start and the flag-clear is reached
\* only with every update chunk executed, the flag-clear is reached only with
\* every append chunk executed too, and a run that cleared the flags has
\* written every record it read.
C34_UpdatesThenAppendsThenClear ==
    /\ rpc = "update" => rlog.appended = {}
    /\ rpc \in {"append", "clear"} => SeqIds(updateRequests) \subseteq rlog.updated
    /\ rpc = "clear" => SeqIds(recordsToAppend) \subseteq rlog.appended
    /\ rlog.cleared =>
          /\ rlog.read = rlog.updated \cup rlog.appended
          /\ rlog.updated \cap rlog.appended = {}

\* A completed run that executed an update chunk and an append chunk before
\* it cleared the flags.
C34_Witness ==
    /\ rlog.outcome = "ok"
    /\ rlog.cleared
    /\ rlog.updated # {}
    /\ rlog.appended # {}

\* C35: a request to an admin handler whose x-admin-key header is absent or
\* differs from the configured secret, the secret being set or not, is never
\* given registration data, never has the stats cache read for it and never
\* has a connection to the Record Store taken for it.
C35_NoAccessWithoutKey ==
    (areq # NoAdminRequest /\ (areq.key = Unset \/ areq.key # EXPORT_SECRET_KEY)) =>
        /\ ~alog.data
        /\ ~alog.cacheRead
        /\ ~alog.connected
        /\ apc = "idle"

\* No secret is configured, and a get-stats request without the header was
\* answered 401.
C35_Witness ==
    /\ EXPORT_SECRET_KEY = Unset
    /\ areq.endpoint = "get-stats"
    /\ areq.key = Unset
    /\ alog.status = 401

\* C36: an authorized export invocation that has not returned can always
\* take a further step, and once it has returned it answered 200 or 500 and
\* released every connection it acquired, also after a failed connect, a
\* failed database stream and a failed workbook commit.
C36_ExportRespondsAndReleases ==
    /\ xpc \in {"connect", "await"} => ENABLED ExportStep
    /\ (xpc = "done" /\ xlog.key = EXPORT_SECRET_KEY) =>
          /\ xlog.status \in {200, 500}
          /\ xlog.released = xlog.acquired

\* C37: whatever the page and limit values and the count, the response of
\* list-registrations has a pageSize in 1..100, which is 10 when limit is
\* absent, not a number or not positive; totalPages is 1 for an empty table
\* and otherwise the least number of pages of that size that hold the count;
\* the page is in 1..totalPages; and the offset is (page - 1) * pageSize,
\* below the count when the table is not empty.
C37_PagingInRange ==
    ppc = "done" =>
        /\ presp.pageSize \in 1..100
        /\ (pparsed.limit.nan \/ pparsed.limit.n <= 0) => presp.pageSize = 10
        /\ (~pparsed.limit.nan /\ pparsed.limit.n \in 1..100) =>
              presp.pageSize = pparsed.limit.n
        /\ presp.total = 0 => presp.totalPages = 1
        /\ presp.total > 0 =>
              /\ presp.totalPages * presp.pageSize >= presp.total
              /\ (presp.totalPages - 1) * presp.pageSize < presp.total
        /\ presp.page \in 1..presp.totalPages
        /\ presp.offset = (presp.page - 1) * presp.pageSize
        /\ presp.total > 0 => presp.offset < presp.total

\* A request for a page beyond the last one of a table with several pages
\* was answered with the last page.
C37_Witness ==
    /\ ppc = "done"
    /\ ~pparsed.page.nan
    /\ presp.totalPages > 1
    /\ pparsed.page.n > presp.totalPages
    /\ presp.page = presp.totalPages
    /\ presp.offset > 0

\* C38: a same-origin GET navigation whose network fetch succeeded was
\* answered with the network's response, and a copy of it is on its way into
\* the cache or was stored there; a navigation is answered from the cache
\* only after its fetch failed, with the response cached for the request
\* or else the cached /admin.html; and a request that is not a GET is given
\* no response by the worker, and no write to the cache is for such a request.
C38_NavigationNetworkFirst ==
    LET nav == wev.method = "GET" /\ wev.sameOrigin /\ wev.mode = "navigate"
        copy == [url |-> wev.url, v |-> wev.resp.v, method |-> "GET"]
    IN  /\ (nav /\ wev.pc = "done" /\ wev.net = "response") =>
              /\ wev.resp.src = "network"
              /\ wev.resp.v = wlog.count
              /\ copy \in wpending \cup wlog.puts
        /\ (nav /\ wev.resp.src = "cache") =>
              /\ wev.net = "failed"
              /\ wev.resp.v = IF wev.own # 0 THEN wev.own ELSE wev.admin
        /\ (nav /\ wev.pc = "done" /\ wev.net = "failed" /\ wev.resp.src # "cache") =>
              (wev.own = 0 /\ wev.admin = 0)
        /\ wev.method # "GET" =>
              /\ wev.pc = "done"
              /\ wev.net = "none"
              /\ wev.resp = NoResponse
        /\ \A p \in wpending \cup wlog.puts : p.method = "GET"

\* A navigation got a response that is not ok from the network, and its copy
\* is in the cache.
C38_Witness ==
    /\ wev.method = "GET"
    /\ wev.sameOrigin
    /\ wev.mode = "navigate"
    /\ wev.pc = "done"
    /\ wev.net = "response"
    /\ ~wev.ok
    /\ wcache[wev.url] = wev.resp.v
    /\ [url |-> wev.url, v |-> wev.resp.v, method |-> "GET"] \in wlog.puts

\* The rows that hold a phone.
RowsOfPhone(phone) == {row \in table : row.phone = phone}

\* A submission has been answered.
Answered(i) == inv[i].kind = "submit" /\ inv[i].pc = "done"

\* C6: under every interleaving of submissions with the same trimmed
\* phone, the table never holds two rows for the phone, and holds exactly
\* one once a submission for it was accepted (200) or refused as a
\* duplicate (409).
C6_OneRecordPerPhone ==
    \A raw \in RawPhones :
        /\ Cardinality(RowsOfPhone(trim(raw))) <= 1
        /\ (\E i \in Invs : /\ Answered(i)
                             /\ trim(inv[i].raw) = trim(raw)
                             /\ inv[i].status \in {200, 409})
              => Cardinality(RowsOfPhone(trim(raw))) = 1

C6_Witness ==
    /\ submitVariant = "part_002"
    /\ \E i, j \in Invs :
        /\ Answered(i) /\ Answered(j)
        /\ inv[i].raw # inv[j].raw
        /\ trim(inv[i].raw) = trim(inv[j].raw)
        /\ inv[i].status = 200
        /\ inv[j].status = 409 /\ inv[j].data = NoData

\* C7: every rejection of a submission for a duplicate phone is a 409 whose
\* body carries the public fields of the existing record, whether the
\* lookup or the insert's unique-constraint violation detected it.
C7_ConflictCarriesRecord ==
    \A i \in Invs :
        (Answered(i) /\ inv[i].dup) =>
            /\ inv[i].status = 409
            /\ inv[i].data \in RowsOfPhone(trim(inv[i].raw))

\* C8: an invocation never releases more connections than it acquired, and
\* when it has answered every connection it acquired has been released.
C8_ReleasedExactlyOnce ==
    \A i \in Invs :
        /\ inv[i].released <= inv[i].acquired
        /\ inv[i].pc = "done" =>
              /\ inv[i].released = inv[i].acquired
              /\ ~inv[i].held

\* The first successful call within the budget n, or 0 when all n fail.
FirstOk(outs, n) ==
    IF \E k \in 1..n : outs[k] = "ok"
    THEN CHOOSE k \in 1..n : outs[k] = "ok" /\ \A j \in 1..(k - 1) : outs[j] # "ok"
    ELSE 0

\* The waits after failed calls 0 .. m-1: delay * 2^i after the i-th.
ExpectedWaits(d, m) == [j \in 1..m |-> d * 2 ^ (j - 1)]

\* C9: with a numeric budget retries >= 1, retryWithBackoff returns the
\* result of the first successful call and calls no further; it makes at
\* most retries calls, waits delay * 2^i after the i-th failed call, and
\* when the last call fails it throws that call's error and does not return.
C9_RetryContract ==
    LET r == BoundRetries(tcall.variant, tcall.a2, tcall.a3)
        d == BoundDelay(tcall.variant, tcall.a3, tcall.a4)
        f == FirstOk(tcall.outs, r.n)
    IN  (tres # NoResult /\ r.t = "num" /\ r.n >= 1) =>
            /\ tres.calls <= r.n
            /\ IF f # 0
               THEN /\ tres.kind = "return"
                    /\ tres.val = f
                    /\ tres.calls = f
                    /\ tres.waits = ExpectedWaits(d.n, f - 1)
               ELSE /\ tres.kind = "throw"
                    /\ tres.val = r.n
                    /\ tres.calls = r.n
                    /\ tres.waits = ExpectedWaits(d.n, r.n - 1)

C9_Witness ==
    /\ tcall.variant = "positional" /\ tcall.a2 = Undef /\ tcall.a3 = Undef
    /\ tres.kind = "throw"
    /\ tres.val = DefaultRetries
    /\ tres.waits = <<500, 1000>>

\* C17: when the wrapped call rejects with a fatal error, retryWithBackoff
\* has called it exactly once, waited for nothing, and throws that error.
C17_FatalNotRetried ==
    LET r == BoundRetries(tcall.variant, tcall.a2, tcall.a3)
    IN  (tres # NoResult /\ r.t = "num" /\ r.n >= 1 /\ tcall.outs[1] = "fatal") =>
            /\ tres.kind = "throw"
            /\ tres.val = 1
            /\ tres.calls = 1
            /\ tres.waits = <<>>

\* C28: a call that passes an operation name as the second argument and
\* nothing after it, as the sync handlers do, invokes the operation at least
\* once and ends with the operation's result or its last error; the name
\* does not change the attempts: the call ends as the same call without it.
C28_NamedCallInvoked ==
    (tres # NoResult /\ tcall.a2 = Str /\ tcall.a3 = Undef /\ tcall.a4 = Undef) =>
        /\ tres.calls >= 1
        /\ tres.kind \in {"return", "throw"}
        /\ tres = retryWithBackoff(tcall.variant, tcall.outs, Undef, Undef, Undef)

\* C10: with the Reconciler run again and again without overlap and
\* external failures coming to an end, every dirty record eventually has a
\* row carrying its current data and needsSync = false.
C10_EventuallyMirrored ==
    \A id \in Ids :
        (recs[id].present /\ recs[id].needsSync) ~> (Fresh(id) /\ ~recs[id].needsSync)

====
